---- MODULE Spec2Model ----
(***************************************************************************)
(* Avatar Forge: the avatar store (state/avatarStore.ts), the procedural   *)
(* scene (components/avatar/AvatarScene.tsx), the exporters                *)
(* (utils/exporters.ts) and, of the page component, the upload handler and *)
(* the progress display.                                                   *)
(*                                                                         *)
(* Unit fractions are held as integer percent (0.35 is 35).  Timer delays  *)
(* are held in milliseconds and counted down in ticks of TickMs.           *)
(***************************************************************************)
EXTENDS Integers, Sequences, FiniteSets, TLC

VARIABLES
    parameters,         \* AvatarState.parameters
    status,             \* AvatarState.status
    generationProgress, \* AvatarState.generationProgress
    uploadedImages,     \* AvatarState.uploadedImages
    lastSavedISO,       \* AvatarState.lastSavedISO ("undefined" when unset)
    timers,             \* pending setTimeout callbacks, in creation order
    genCount,           \* number of generateAvatar calls that scheduled timers
    emitted,            \* history: values written by the current generation
    last,               \* history: the operation that produced this state
    refs,               \* which objects state.parameters and its sections are
    scene,              \* <<the tree AvatarModel rendered last>>, <<>> before
    root,               \* <<the Group handed to the exporter>>, <<>> if none
    flat,               \* <<what collectMeshes returned for root>>, or <<>>
    props,              \* <<the parameters of the last render>>, <<>> before
    cloth,              \* <<the cloth geometry's buffers>>, <<>> before mount
    frame,              \* the task that is running, and where it stands
    fbx,                \* what the last FBX exports returned, oldest first
    gltf,               \* the glTF exports that were started, oldest first
    probe,              \* inputs and results of a function under test
    memo,               \* <<the useMemo cells of AvatarModel>>, <<>> before
    hook,               \* <<useLiveGenerationProgress's state>>, <<>> before
    readers             \* the FileReaders that have not fired onload yet

storeVars == <<parameters, status, generationProgress, uploadedImages,
               lastSavedISO, timers, genCount, emitted, last, refs>>
viewVars == <<scene, root, flat, props, cloth, frame, fbx, gltf, probe, memo,
              hook>>
pageVars == <<readers>>

-----------------------------------------------------------------------------
(* Bounds of the model *)

MaxGen == 2         \* accepted generateAvatar calls explored
TickMs == 500       \* resolution of the timer clock, in ms
MaxUploads == 1     \* uploaded images explored by the store actions

(* Program constants *)

totalDuration == 3000
steps == <<0, 18, 37, 58, 76, 92, 100>>

AvatarStatus == {"idle", "processing", "ready"}

defaultParameters ==
    [facial |-> [eyeSpacing |-> 50, eyeSize |-> 50, noseWidth |-> 50,
                 noseLength |-> 50, lipFullness |-> 50, earSize |-> 50],
     head |-> [headHeight |-> 50, headWidth |-> 50, chinDefinition |-> 50,
               jawWidth |-> 50, neckThickness |-> 50],
     skin |-> [tone |-> "#c58c6d", roughness |-> 35, sheen |-> 40,
               subsurface |-> 60, freckles |-> 15],
     hair |-> [style |-> "medium", color |-> "#1f1a17",
               secondaryColor |-> "#2f2723", length |-> 60, curl |-> 35,
               volume |-> 55],
     body |-> [height |-> 60, weight |-> 50, muscle |-> 60, posture |-> 50,
               shoulderWidth |-> 55],
     clothing |-> [outfit |-> "athletic", primaryColor |-> "#243447",
                   secondaryColor |-> "#7e94ff", fabricSheen |-> 45,
                   layering |-> 40]]

-----------------------------------------------------------------------------
(* Inputs the actions draw from *)

\* a parameter set restored from storage: the defaults with two leaves edited
SavedParameters ==
    [defaultParameters EXCEPT !.hair.style = "long", !.facial.eyeSize = 80]

ParamSets == {SavedParameters}

\* (section, key, value) triples passed to setParameter
ParamEdits == {<<"hair", "style", "buzz">>, <<"body", "height", 100>>}

StatusInputs == AvatarStatus
ProgressInputs == {50, 150}

Images == {[id |-> "a.png-1", name |-> "a.png", src |-> "data:a", size |-> 10]}
IsoInputs == {"2025-01-01T00:00:00.000Z"}

-----------------------------------------------------------------------------
(* Helpers *)

Min(a, b) == IF a <= b THEN a ELSE b

\* { ...obj, [key]: val }
Spread(obj, key, val) ==
    [k \in (DOMAIN obj) \cup {key} |-> IF k = key THEN val ELSE obj[k]]

Op(name, arg) == [op |-> name, pre |-> status, arg |-> arg]

\* the objects a useMemo of the scene lists among its dependencies
RefSlots == {"parameters", "skin", "hair"}

\* object identities: 0 is defaultParameters or a section of it, the others
\* are objects made since
DefaultRefs == [slot \in RefSlots |-> 0]

\* the object a useMemo cell still refers to, -1 if none
Held(slot) ==
    IF memo = <<>> THEN -1
    ELSE IF slot = "skin" THEN memo[1].skinMaterial.deps[1]
    ELSE IF slot = "hair" THEN memo[1].hairLayers.deps[1]
    ELSE memo[1].hairHue.deps[1]

\* a new object: it is none of the objects that are still referred to
Fresh(slot) == IF Held(slot) = 1 THEN 2 ELSE 1

-----------------------------------------------------------------------------
(* The store: create<AvatarState>((set, get) => ({ ... })) *)

\* the initial state but for the parameters
StoreRest ==
    /\ status = "idle"
    /\ generationProgress = 0
    /\ uploadedImages = <<>>
    /\ lastSavedISO = "undefined"
    /\ timers = <<>>
    /\ genCount = 0
    /\ emitted = <<>>
    /\ last = [op |-> "create", pre |-> "idle", arg |-> <<>>]

StoreInit ==
    /\ parameters = defaultParameters
    /\ refs = DefaultRefs
    /\ StoreRest

setParameters(params) ==
    /\ parameters' = params
    /\ refs' = [slot \in RefSlots |-> Fresh(slot)]
    /\ status' = "idle"
    /\ last' = Op("setParameters", <<>>)
    /\ UNCHANGED <<viewVars, pageVars>>
    /\ UNCHANGED <<generationProgress, uploadedImages, lastSavedISO, timers,
                   genCount, emitted>>

\* faulty variant: the section is rebuilt without ...state.parameters[section]
setParameter_DropsSiblings(section, key, value) ==
    /\ parameters' = Spread(parameters, section, [k \in {key} |-> value])
    /\ refs' = [slot \in RefSlots |->
                IF slot = "parameters" \/ slot = section
                THEN Fresh(slot) ELSE refs[slot]]
    /\ status' = IF status = "ready" THEN "idle" ELSE status
    /\ last' = Op("setParameter", <<section, key, value>>)
    /\ UNCHANGED <<viewVars, pageVars>>
    /\ UNCHANGED <<generationProgress, uploadedImages, lastSavedISO, timers,
                   genCount, emitted>>

\* faulty variant: the status is carried over whatever it is
setParameter_KeepsStatus(section, key, value) ==
    /\ parameters' = Spread(parameters, section,
                            Spread(parameters[section], key, value))
    /\ refs' = [slot \in RefSlots |->
                IF slot = "parameters" \/ slot = section
                THEN Fresh(slot) ELSE refs[slot]]
    /\ status' = status
    /\ last' = Op("setParameter", <<section, key, value>>)
    /\ UNCHANGED <<viewVars, pageVars>>
    /\ UNCHANGED <<generationProgress, uploadedImages, lastSavedISO, timers,
                   genCount, emitted>>

setParameter(section, key, value) ==
    /\ parameters' = Spread(parameters, section,
                            Spread(parameters[section], key, value))
    /\ refs' = [slot \in RefSlots |->
                IF slot = "parameters" \/ slot = section
                THEN Fresh(slot) ELSE refs[slot]]
    /\ status' = IF status = "ready" THEN "idle" ELSE status
    /\ last' = Op("setParameter", <<section, key, value>>)
    /\ UNCHANGED <<viewVars, pageVars>>
    /\ UNCHANGED <<generationProgress, uploadedImages, lastSavedISO, timers,
                   genCount, emitted>>

setStatus(s) ==
    /\ status' = s
    /\ UNCHANGED refs
    /\ last' = Op("setStatus", <<>>)
    /\ UNCHANGED <<viewVars, pageVars>>
    /\ UNCHANGED <<parameters, generationProgress, uploadedImages,
                   lastSavedISO, timers, genCount, emitted>>

setGenerationProgress(value) ==
    /\ generationProgress' = value
    /\ UNCHANGED refs
    /\ last' = Op("setGenerationProgress", <<>>)
    /\ UNCHANGED <<viewVars, pageVars>>
    /\ UNCHANGED <<parameters, status, uploadedImages, lastSavedISO, timers,
                   genCount, emitted>>

addUpload(image) ==
    /\ uploadedImages' = uploadedImages \o <<image>>
    /\ UNCHANGED refs
    /\ last' = Op("addUpload", <<>>)
    /\ UNCHANGED viewVars
    /\ UNCHANGED <<parameters, status, generationProgress, lastSavedISO,
                   timers, genCount, emitted>>

removeUpload(id) ==
    /\ uploadedImages' = SelectSeq(uploadedImages, LAMBDA img : img.id # id)
    /\ UNCHANGED refs
    /\ last' = Op("removeUpload", <<>>)
    /\ UNCHANGED <<viewVars, pageVars>>
    /\ UNCHANGED <<parameters, status, generationProgress, lastSavedISO,
                   timers, genCount, emitted>>

resetUploads ==
    /\ uploadedImages' = <<>>
    /\ UNCHANGED refs
    /\ last' = Op("resetUploads", <<>>)
    /\ UNCHANGED <<viewVars, pageVars>>
    /\ UNCHANGED <<parameters, status, generationProgress, lastSavedISO,
                   timers, genCount, emitted>>

markSaved(iso) ==
    /\ lastSavedISO' = iso
    /\ UNCHANGED refs
    /\ last' = Op("markSaved", <<>>)
    /\ UNCHANGED <<viewVars, pageVars>>
    /\ UNCHANGED <<parameters, status, generationProgress, uploadedImages,
                   timers, genCount, emitted>>

\* faulty variant: the hair section is left as it is
resetParameters_KeepsHair ==
    /\ parameters' = [defaultParameters EXCEPT !.hair = parameters.hair]
    /\ refs' = DefaultRefs
    /\ status' = "idle"
    /\ last' = Op("resetParameters", <<>>)
    /\ UNCHANGED <<viewVars, pageVars>>
    /\ UNCHANGED <<generationProgress, uploadedImages, lastSavedISO, timers,
                   genCount, emitted>>

resetParameters ==
    /\ parameters' = defaultParameters
    /\ refs' = DefaultRefs
    /\ status' = "idle"
    /\ last' = Op("resetParameters", <<>>)
    /\ UNCHANGED <<viewVars, pageVars>>
    /\ UNCHANGED <<generationProgress, uploadedImages, lastSavedISO, timers,
                   genCount, emitted>>

\* faulty variant: index / (steps.length - 1) is an integer division
Delay_WholeQuotient(index) ==
    Min(totalDuration * (index \div (Len(steps) - 1)), totalDuration)

\* Math.min(totalDuration * (index / (steps.length - 1)), totalDuration),
\* index counted from 0
Delay(index) ==
    Min((totalDuration * index) \div (Len(steps) - 1), totalDuration)

\* the setTimeout calls of one steps.forEach, in creation order
ScheduledTimers(gen) ==
    [i \in 1..Len(steps) |->
        [gen |-> gen, value |-> steps[i], delay |-> Delay(i - 1),
         remaining |-> Delay(i - 1) \div TickMs]]

\* faulty variant: no early return while processing
generateAvatar_NoGuard ==
    /\ UNCHANGED refs
    /\ last' = Op("generateAvatar", <<>>)
    /\ UNCHANGED <<viewVars, pageVars>>
    /\ genCount < MaxGen
    /\ status' = "processing"
    /\ generationProgress' = 0
    /\ genCount' = genCount + 1
    /\ timers' = timers \o ScheduledTimers(genCount + 1)
    /\ emitted' = <<0>>
    /\ UNCHANGED <<parameters, uploadedImages, lastSavedISO>>

generateAvatar ==
    /\ UNCHANGED refs
    /\ last' = Op("generateAvatar", <<>>)
    /\ UNCHANGED <<viewVars, pageVars>>
    /\ IF status = "processing"
       THEN UNCHANGED <<parameters, status, generationProgress,
                        uploadedImages, lastSavedISO, timers, genCount,
                        emitted>>
       ELSE /\ genCount < MaxGen
            /\ status' = "processing"
            /\ generationProgress' = 0
            /\ genCount' = genCount + 1
            /\ timers' = timers \o ScheduledTimers(genCount + 1)
            /\ emitted' = <<0>>
            /\ UNCHANGED <<parameters, uploadedImages, lastSavedISO>>

\* the pending timers that are due, earliest created first
Due == {i \in 1..Len(timers) : timers[i].remaining = 0}

RemoveAt(seq, i) == SubSeq(seq, 1, i - 1) \o SubSeq(seq, i + 1, Len(seq))

\* faulty variant: the callback leaves the status alone
TimerCallback_NeverReady(value) ==
    /\ generationProgress' = value
    /\ status' = status

\* the callback handed to setTimeout
TimerCallback(value) ==
    /\ generationProgress' = value
    /\ status' = IF value >= 100 THEN "ready" ELSE status

TimerFires ==
    /\ Due # {}
    /\ LET i == CHOOSE d \in Due : \A e \in Due : d <= e
       IN /\ TimerCallback(timers[i].value)
          /\ emitted' = Append(emitted, timers[i].value)
          /\ timers' = RemoveAt(timers, i)
    /\ UNCHANGED refs
    /\ last' = Op("timer", <<>>)
    /\ UNCHANGED <<viewVars, pageVars>>
    /\ UNCHANGED <<parameters, uploadedImages, lastSavedISO, genCount>>

\* time passes: one tick, while no pending timer is due
Advance ==
    /\ timers # <<>>
    /\ Due = {}
    /\ timers' = [i \in 1..Len(timers) |->
                    [timers[i] EXCEPT !.remaining = @ - 1]]
    /\ UNCHANGED refs
    /\ last' = Op("advance", <<>>)
    /\ UNCHANGED <<viewVars, pageVars>>
    /\ UNCHANGED <<parameters, status, generationProgress, uploadedImages,
                   lastSavedISO, genCount, emitted>>

-----------------------------------------------------------------------------
(* The procedural scene: AvatarModel.                                       *)
(* Lengths are fixed-point integers, One to the unit; rotations are Euler  *)
(* angles in tenths of pi.                                                 *)

Percent == 10 ^ 2
One == 12 * 10 ^ 5

\* a literal of the source given in thousandths: R(1400) is 1.4
R(milli) == milli * (One \div 1000)

\* a * (num / den)
Frac(a, num, den) == (a * num) \div den

\* faulty variant: the span is added to the upper end
lerp_FromMax(value, min, max) == max + Frac(max - min, value, Percent)

\* min + (max - min) * value, value a unit fraction held in percent
lerp(value, min, max) == min + Frac(max - min, value, Percent)

layers == 6
HairStyles == {"buzz", "short", "medium", "long", "braids"}

NoGeometry == [shape |-> "none", args |-> <<>>]
Geometry(shape, args) == [shape |-> shape, args |-> args]

Group(name, position, children) ==
    [type |-> "Group", name |-> name, position |-> position,
     rotation |-> <<0, 0, 0>>, scale |-> <<One, One, One>>,
     geometry |-> NoGeometry, children |-> children]

Mesh(name, position, rotation, scale, geometry) ==
    [type |-> "Mesh", name |-> name, position |-> position,
     rotation |-> rotation, scale |-> scale, geometry |-> geometry,
     children |-> <<>>]

headScale(p) ==
    <<lerp(p.head.headWidth, R(900), R(1200)),
      lerp(p.head.headHeight, R(900), R(1300)),
      lerp(p.head.chinDefinition, R(900), R(1100))>>

\* Array.from({ length: layers }).map((_, index) => ...), index from 0;
\* t = index / layers, so 1 - t * 0.15 is (layers*100 - index*15)/(layers*100)
hairLayers(p) ==
    [n \in 1..layers |->
        LET index == n - 1
        IN [radius |-> Frac(lerp(p.hair.volume, R(400), R(850)),
                            layers * 100 - index * 15, layers * 100),
            height |-> IF p.hair.style = "buzz"
                       THEN Frac(lerp(p.hair.length, R(400), R(1400)), 3, 10)
                       ELSE Frac(lerp(p.hair.length, R(400), R(1400)),
                                 layers * 10 - index, layers * 10),
            offset |-> Frac(One, index, layers)]]

Color(hex) == [hex |-> hex, offsetHSL |-> <<0, 0, 0>>]

\* the MeshPhysicalMaterial of the skin; clearcoat and transmission are in
\* units of 1/10000, offsetHSL in percent
skinMaterial(p) ==
    [color |-> Color(p.skin.tone),
     roughness |-> p.skin.roughness,
     metalness |-> 2,
     reflectivity |-> 45,
     clearcoat |-> p.skin.sheen * 60,
     clearcoatRoughness |-> 30,
     sheen |-> p.skin.sheen,
     sheenColor |-> [Color(p.skin.tone) EXCEPT !.offsetHSL = <<0, -5, 10>>],
     transmission |-> p.skin.subsurface * 15]

hairHue(p) == Color(p.hair.color)

secondaryHairColor(p) == Color(p.hair.secondaryColor)

\* useMemo(factory, deps): the cell of the last render is kept when every
\* dependency is the same as then (Object.is: a number or a string by value,
\* an object by identity), else the factory runs
useMemo(cell, value, deps) ==
    IF cell # <<>> /\ cell[1].deps = deps THEN cell[1]
    ELSE [deps |-> deps, value |-> value]

\* the cell a hook call finds: none at the first render
MemoCell(cells, name) == IF cells = <<>> THEN <<>> ELSE <<cells[1][name]>>

\* the dependency lists of the five useMemo calls
skinMaterialDeps(p, r) == <<r["skin"]>>
headScaleDeps(p, r) ==
    <<p.head.chinDefinition, p.head.headHeight, p.head.headWidth>>
hairHueDeps(p, r) == <<r["parameters"]>>
secondaryHairColorDeps(p, r) == <<p.hair.secondaryColor>>
\* faulty variant: the hair layers depend on the hair length alone
hairLayersDeps_LengthOnly(p, r) == <<p.hair.length>>

hairLayersDeps(p, r) == <<r["hair"]>>

\* the useMemo calls of one render of AvatarModel, with parameters p that
\* are the objects r
AvatarMemos(cells, p, r) ==
    [skinMaterial |-> useMemo(MemoCell(cells, "skinMaterial"), skinMaterial(p),
                              skinMaterialDeps(p, r)),
     headScale |-> useMemo(MemoCell(cells, "headScale"), headScale(p),
                           headScaleDeps(p, r)),
     hairHue |-> useMemo(MemoCell(cells, "hairHue"), hairHue(p),
                         hairHueDeps(p, r)),
     secondaryHairColor |-> useMemo(MemoCell(cells, "secondaryHairColor"),
                                    secondaryHairColor(p),
                                    secondaryHairColorDeps(p, r)),
     hairLayers |-> useMemo(MemoCell(cells, "hairLayers"), hairLayers(p),
                            hairLayersDeps(p, r))]

\* what the useMemo calls returned to the render
Values(cells) == [name \in DOMAIN cells |-> cells[name].value]

\* the derived values computed from p
Derived(p) == Values(AvatarMemos(<<>>, p, DefaultRefs))

\* hairLayers.map((layer, index) => <mesh key={`hair-${index}`} ... />)
HairLayerMeshes(p, m) ==
    [n \in 1..layers |->
        LET layer == m.hairLayers[n]
        IN Mesh("hair-layer",
                <<0, Frac(layer.offset - One \div 2, p.hair.length, Percent), 0>>,
                <<0, 0, 0>>,
                <<layer.radius, layer.height, layer.radius>>,
                Geometry("sphere", <<R(400), 48, 48>>))]

BuzzMesh ==
    Mesh("hair-buzz", <<0, 0, 0>>, <<0, 0, 0>>, <<R(950), R(850), R(950)>>,
         Geometry("sphere", <<R(420), 48, 48>>))

\* faulty variant: the layered hair is rendered whatever the style
HairChildren_AlwaysLayers(p, m) == HairLayerMeshes(p, m)

\* the children of the hair group
HairChildren(p, m) ==
    IF p.hair.style # "buzz" THEN HairLayerMeshes(p, m) ELSE <<BuzzMesh>>

TorsoGroup(p) ==
    Group("torso", <<0, lerp(p.body.height, R(1400), R(1900)), 0>>,
          <<Mesh("torso-mesh", <<0, R(350), 0>>, <<0, 0, 0>>,
                 <<One, R(1400), R(800)>>,
                 Geometry("capsule",
                          <<R(380), lerp(p.body.height, R(1100), R(1600))>>))>>)

\* faulty variant: the head stays where height 0 puts it
HeadMesh_Unmoved(p, m) ==
    Mesh("head", <<0, R(1500), 0>>, <<0, 0, 0>>,
         m.headScale, Geometry("sphere", <<R(400), 64, 64>>))

HeadMesh(p, m) ==
    Mesh("head", <<0, lerp(p.body.height, R(1500), R(1900)), 0>>, <<0, 0, 0>>,
         m.headScale, Geometry("sphere", <<R(400), 64, 64>>))

Eye(p, sign) ==
    Mesh("eye", <<sign * lerp(p.facial.eyeSpacing, R(160), R(240)), R(30), R(360)>>,
         <<0, 0, 0>>, <<One, One, One>>,
         Geometry("sphere", <<lerp(p.facial.eyeSize, R(60), R(90)), 32, 32>>))

FaceGroup(p) ==
    Group("face", <<0, lerp(p.body.height, R(1650), R(2000)), 0>>,
          <<Eye(p, -1),
            Eye(p, 1),
            Mesh("nose", <<0, -R(20), R(420)>>, <<5, 0, 0>>, <<One, One, One>>,
                 Geometry("cylinder",
                          <<lerp(p.facial.noseWidth, R(50), R(120)),
                            lerp(p.facial.noseWidth, R(30), R(80)),
                            lerp(p.facial.noseLength, R(280), R(420)), 32>>)),
            Mesh("mouth", <<0, -R(180), R(330)>>, <<0, 0, 0>>, <<One, One, One>>,
                 Geometry("capsule",
                          <<lerp(p.facial.lipFullness, R(40), R(90)),
                            lerp(p.facial.lipFullness, R(120), R(250))>>)),
            Mesh("ear", <<-R(400), R(50), 0>>, <<0, 6, 0>>, <<One, One, One>>,
                 Geometry("sphere",
                          <<lerp(p.facial.earSize, R(100), R(160)), 32, 32>>)),
            Mesh("ear", <<R(400), R(50), 0>>, <<0, -6, 0>>, <<One, One, One>>,
                 Geometry("sphere",
                          <<lerp(p.facial.earSize, R(100), R(160)), 32, 32>>))>>)

HairGroup(p, m) ==
    Group("hair", <<0, lerp(p.body.height, R(1740), R(2080)), 0>>,
          HairChildren(p, m))

\* <Float> wraps the cloth mesh in a group of its own
ClothFloat(p) ==
    Group("float", <<0, 0, 0>>,
          <<Mesh("cloth", <<0, lerp(p.body.height, R(1100), R(1350)), 0>>,
                 <<-5, 0, 0>>, <<One, One, One>>,
                 Geometry("plane", <<R(1800), R(2200), 18, 24>>))>>)

\* the tree under rootRef, for parameters p and the memoized values m
AvatarModel(p, m) ==
    Group("root", <<0, -R(600) + Frac(R(100), p.body.posture, Percent), 0>>,
          <<TorsoGroup(p), HeadMesh(p, m), FaceGroup(p), HairGroup(p, m),
            ClothFloat(p)>>)

-----------------------------------------------------------------------------
(* The continuous animator: the cloth geometry and the useFrame callback.   *)
(* Buffers hold numbers in units of 10^-7 (Whole is 1.0), angles are in     *)
(* thousandths of a radian, elapsed time is in milliseconds.  A callback    *)
(* is a task of the event loop: its loop is modelled vertex by vertex, and  *)
(* no other task starts while it runs.                                      *)

Whole == 10 ^ 7

widthSegments == 1      \* columns of the cloth grid (18 in the source)
heightSegments == 1     \* rows of the cloth grid (24 in the source)

\* no task is running
Idle == [running |-> "none", i |-> 0, elapsed |-> 0]

\* faulty variant: a task may start in the middle of another
TaskMayStart_Preempts == TRUE

\* the event loop starts a task only when none is running
TaskMayStart == frame.running = "none"

\* new PlaneGeometry(1.8, 2.2, widthSegments, heightSegments): the position
\* array, x, y, z of each vertex, row by row from the top
PlanePositions ==
    LET width == 18 * (Whole \div 10)
        height == 22 * (Whole \div 10)
        gridX1 == widthSegments + 1
        gridY1 == heightSegments + 1
        segment_width == width \div widthSegments
        segment_height == height \div heightSegments
    IN [k \in 1..(3 * gridX1 * gridY1) |->
           LET vertex == (k - 1) \div 3
               ix == vertex % gridX1
               iy == vertex \div gridX1
           IN IF (k - 1) % 3 = 0 THEN ix * segment_width - (width \div 2)
              ELSE IF (k - 1) % 3 = 1
                   THEN -(iy * segment_height - (height \div 2))
              ELSE 0]

\* the index of the plane: two triangles a, b, d and b, c, d per cell
PlaneIndex ==
    LET gridX1 == widthSegments + 1
        Cell(n) ==
            LET ix == n % widthSegments
                iy == n \div widthSegments
                a == ix + gridX1 * iy
                b == ix + gridX1 * (iy + 1)
                c == (ix + 1) + gridX1 * (iy + 1)
                d == (ix + 1) + gridX1 * iy
            IN <<a, b, d, b, c, d>>
    IN [k \in 1..(6 * widthSegments * heightSegments) |->
           Cell((k - 1) \div 6)[((k - 1) % 6) + 1]]

\* useClothGeometry: the geometry's position array (live) and basePositions,
\* a copy of it (rest).  written, elapsed and closure are history: per vertex
\* the elapsed time of the frame that wrote it last (-1 if none), and the
\* elapsed time and parameters of the last frame that ran to its end.
\* hairRotation is hairGroupRef.current.rotation, z and x.
ClothGeometry ==
    [rest |-> PlanePositions,
     live |-> PlanePositions,
     written |-> [v \in 1..(Len(PlanePositions) \div 3) |-> -1],
     elapsed |-> -1,
     closure |-> <<>>,
     hairRotation |-> <<0, 0>>]

Pi == 3142

\* Math.sin of an angle in thousandths of a radian, in thousandths: the
\* rational approximation 16 x (pi - x) / (5 pi^2 - 4 x (pi - x)) on [0, pi]
Sin(angle) ==
    LET a == angle % (2 * Pi)
        x == IF a < Pi THEN a ELSE a - Pi
        p == x * (Pi - x)
        s == (((16 * p) \div 1000) * 1000) \div ((5 * Pi * Pi - 4 * p) \div 1000)
    IN IF a < Pi THEN s ELSE -s

\* Math.cos
Cos(angle) == Sin(angle + (Pi \div 2))

\* wave + dynamicOffset of lines 115-121 for a vertex at rest in baseX, baseY
ClothOffset(baseX, baseY, elapsed, p) ==
    LET windAmplitude == 150 + p.clothing.layering * 2
        wave == Sin((baseY \div 2500) + ((elapsed * 21) \div 10)) * 200
                  + Cos((baseX \div 2500) + ((elapsed * 16) \div 10)) * 200
        dynamicOffset ==
            (Sin(elapsed * 3 + ((baseX * 23) \div 100000))
                * windAmplitude * (300 + p.clothing.fabricSheen * 10)) \div 100
    IN wave + dynamicOffset

\* the rotation the callback gives the hair group, z and x, in thousandths
HairRotation(elapsed, p) ==
    LET hairFlex == 80 + (p.hair.length * 18) \div 10
        curliness == 400 + p.hair.curl * 9
    IN <<(Sin((elapsed * (1400 + curliness)) \div 1000) * hairFlex) \div 1000,
         (Cos((elapsed * 12) \div 10) * (hairFlex \div 2)) \div 1000>>

\* the instants at which the clock is read by a frame
ElapsedInputs == {0, 700}

AnimatorRest(op, arg) ==
    /\ last' = Op(op, arg)
    /\ UNCHANGED <<parameters, status, generationProgress, uploadedImages,
                   lastSavedISO, timers, genCount, emitted, refs>>
    /\ UNCHANGED <<scene, root, flat, props, fbx, gltf, probe, memo, hook,
                   readers>>

\* the callback starts: it reads the clock, which never runs backwards,
\* and turns the hair group
FrameStart(elapsed) ==
    /\ cloth # <<>>
    /\ props # <<>>
    /\ TaskMayStart
    /\ elapsed >= cloth[1].elapsed
    /\ frame' = [running |-> "frame", i |-> 0, elapsed |-> elapsed]
    /\ cloth' = <<[cloth[1] EXCEPT
                      !.hairRotation = HairRotation(elapsed, props[1])]>>
    /\ AnimatorRest("FrameStart", <<elapsed>>)

\* faulty variant: the offset is added to what the buffer holds
FrameStep_Accumulates ==
    /\ frame.running = "frame"
    /\ frame.i < Len(cloth[1].live)
    /\ LET i == frame.i
           baseX == cloth[1].rest[i + 1]
           baseY == cloth[1].rest[i + 2]
       IN cloth' = <<[cloth[1] EXCEPT
                         !.live[i + 3] =
                             cloth[1].live[i + 3]
                               + ClothOffset(baseX, baseY, frame.elapsed, props[1]),
                         !.written[(i \div 3) + 1] = frame.elapsed]>>
    /\ frame' = [frame EXCEPT !.i = frame.i + 3]
    /\ AnimatorRest("FrameStep", <<frame.i>>)

\* one turn of the loop: array[i + 2] = basePositions[i + 2] + wave +
\* dynamicOffset, the arrays counted from 1 here
FrameStep ==
    /\ frame.running = "frame"
    /\ frame.i < Len(cloth[1].live)
    /\ LET i == frame.i
           baseX == cloth[1].rest[i + 1]
           baseY == cloth[1].rest[i + 2]
       IN cloth' = <<[cloth[1] EXCEPT
                         !.live[i + 3] =
                             cloth[1].rest[i + 3]
                               + ClothOffset(baseX, baseY, frame.elapsed, props[1]),
                         !.written[(i \div 3) + 1] = frame.elapsed]>>
    /\ frame' = [frame EXCEPT !.i = frame.i + 3]
    /\ AnimatorRest("FrameStep", <<frame.i>>)

\* the loop is over: needsUpdate, computeVertexNormals, and the callback
\* returns
FrameEnd ==
    /\ frame.running = "frame"
    /\ frame.i >= Len(cloth[1].live)
    /\ cloth' = <<[cloth[1] EXCEPT !.elapsed = frame.elapsed,
                                   !.closure = props]>>
    /\ frame' = Idle
    /\ AnimatorRest("FrameEnd", <<cloth[1].elapsed>>)

\* React renders AvatarModel with the store's current parameters: the
\* useMemo calls, then the tree; the first render makes the cloth geometry
Render ==
    /\ memo' = <<AvatarMemos(memo, parameters, refs)>>
    /\ scene' = <<AvatarModel(parameters,
                              Values(AvatarMemos(memo, parameters, refs)))>>
    /\ props' = <<parameters>>
    /\ cloth' = IF cloth = <<>> THEN <<ClothGeometry>> ELSE cloth
    /\ last' = Op("render", <<>>)
    /\ UNCHANGED <<parameters, status, generationProgress, uploadedImages,
                   lastSavedISO, timers, genCount, emitted, refs>>
    /\ UNCHANGED <<root, flat, frame, fbx, gltf, probe, hook, readers>>

-----------------------------------------------------------------------------
(* The scene flattener: collectMeshes.                                      *)
(* Coordinates are integers in units of 10^-7, so that the rounding to six *)
(* decimals is visible; Whole is 1.0.  A transform is a translation and a  *)
(* uniform positive integer scale; normals are axis-aligned.               *)

Abs(x) == IF x < 0 THEN -x ELSE x
Sign(x) == IF x < 0 THEN -1 ELSE IF x > 0 THEN 1 ELSE 0

\* faulty variant: the digits after the sixth decimal are cut off
formatNumber_Truncates(value) == Sign(value) * ((Abs(value) \div 10) * 10)

\* Number.parseFloat(value.toFixed(6)): six decimals, halves away from zero
formatNumber(value) == Sign(value) * (((Abs(value) + 5) \div 10) * 10)

\* a BufferGeometry: index is read only when indexed, normal only when hasNormal
BufferGeometry(indexed, index, position, hasNormal, normal) ==
    [present |-> TRUE, indexed |-> indexed, index |-> index,
     position |-> position, hasNormal |-> hasNormal, normal |-> normal]

\* mesh.geometry is null or undefined
NoBuffer ==
    [present |-> FALSE, indexed |-> FALSE, index |-> <<>>, position |-> <<>>,
     hasNormal |-> FALSE, normal |-> <<>>]

Object3D(isMesh, geometry, position, scale, children) ==
    [isMesh |-> isMesh, geometry |-> geometry, position |-> position,
     scale |-> scale, children |-> children]

isRenderableMesh(object) == object.isMesh = TRUE

IdentityMatrix == [t |-> <<0, 0, 0>>, s |-> 1]

\* matrixWorld of a node under a parent whose matrixWorld is parentWorld
WorldMatrix(parentWorld, node) ==
    [t |-> <<parentWorld.t[1] + parentWorld.s * node.position[1],
             parentWorld.t[2] + parentWorld.s * node.position[2],
             parentWorld.t[3] + parentWorld.s * node.position[3]>>,
     s |-> parentWorld.s * node.scale]

\* vertex.applyMatrix4(worldMatrix)
applyMatrix4(v, m) ==
    <<m.t[1] + m.s * v[1], m.t[2] + m.s * v[2], m.t[3] + m.s * v[3]>>

\* normal.applyMatrix3(normalMatrix).normalize(), for an axis-aligned normal
\* and the normal matrix of a uniform positive scale
applyNormalMatrix(n, m) == <<Sign(n[1]) * Whole, Sign(n[2]) * Whole, Sign(n[3]) * Whole>>

\* geometry.toNonIndexed(): the geometry itself when it has no index, else
\* every attribute expanded through the index (indices count from 0)
toNonIndexed(g) ==
    IF ~g.indexed THEN g
    ELSE [g EXCEPT
            !.indexed = FALSE,
            !.index = <<>>,
            !.position = [i \in 1..Len(g.index) |-> g.position[g.index[i] + 1]],
            !.normal = IF g.hasNormal
                       THEN [i \in 1..Len(g.index) |-> g.normal[g.index[i] + 1]]
                       ELSE <<>>]

Triple(v) == <<formatNumber(v[1]), formatNumber(v[2]), formatNumber(v[3])>>

RECURSIVE MeshLoop_NoFallback(_, _, _, _)
\* faulty variant: nothing is pushed to normals when there is no normal attribute
MeshLoop_NoFallback(temp, world, i, out) ==
    IF i > Len(temp.position) THEN out
    ELSE MeshLoop_NoFallback(temp, world, i + 1,
           [vertices |-> out.vertices
                           \o Triple(applyMatrix4(temp.position[i], world)),
            normals |-> IF temp.hasNormal
                        THEN out.normals
                               \o Triple(applyNormalMatrix(temp.normal[i], world))
                        ELSE out.normals,
            raw |-> out.raw \o applyMatrix4(temp.position[i], world)])

RECURSIVE MeshLoop(_, _, _, _)
\* for (let i = 0; i < positionAttribute.count; i += 1) { ... }, i from 1
MeshLoop(temp, world, i, out) ==
    IF i > Len(temp.position) THEN out
    ELSE MeshLoop(temp, world, i + 1,
           [vertices |-> out.vertices
                           \o Triple(applyMatrix4(temp.position[i], world)),
            normals |-> IF temp.hasNormal
                        THEN out.normals
                               \o Triple(applyNormalMatrix(temp.normal[i], world))
                        ELSE out.normals \o <<0, Whole, 0>>,
            raw |-> out.raw \o applyMatrix4(temp.position[i], world)])

\* the traverse callback on one node
VisitNode(child, world, out) ==
    IF ~isRenderableMesh(child) THEN out
    ELSE IF ~child.geometry.present THEN out
    ELSE MeshLoop(toNonIndexed(child.geometry), world, 1, out)

RECURSIVE Traverse_SkipsGroups(_, _, _)
\* faulty variant: a node without geometry passes its parent's matrix on
Traverse_SkipsGroups(node, parentWorld, out) ==
    LET world == WorldMatrix(parentWorld, node)
        passed == IF isRenderableMesh(node) /\ node.geometry.present
                  THEN world ELSE parentWorld
        RECURSIVE Children(_, _)
        Children(i, acc) ==
            IF i > Len(node.children) THEN acc
            ELSE Children(i + 1,
                          Traverse_SkipsGroups(node.children[i], passed, acc))
    IN Children(1, VisitNode(node, world, out))

RECURSIVE Traverse(_, _, _)
\* root.traverse(callback): the node, then its children in order
Traverse(node, parentWorld, out) ==
    LET world == WorldMatrix(parentWorld, node)
        RECURSIVE Children(_, _)
        Children(i, acc) ==
            IF i > Len(node.children) THEN acc
            ELSE Children(i + 1, Traverse(node.children[i], world, acc))
    IN Children(1, VisitNode(node, world, out))

\* raw is history: the world coordinates before formatNumber
collectMeshes(group) ==
    Traverse(group, IdentityMatrix,
             [vertices |-> <<>>, normals |-> <<>>, raw |-> <<>>])

\* the exporter flattens the group it is handed
Collect ==
    /\ root # <<>>
    /\ flat' = <<collectMeshes(root[1])>>
    /\ last' = Op("collectMeshes", <<>>)
    /\ UNCHANGED <<parameters, status, generationProgress, uploadedImages,
                   lastSavedISO, timers, genCount, emitted, refs>>
    /\ UNCHANGED <<scene, root, props, cloth, frame, fbx, gltf, probe, memo,
                   hook, readers>>

-----------------------------------------------------------------------------
(* The FBX exporter: exportAvatarAsFBX.                                     *)
(* Every number is an integer in units of 10^-7, the integer n being       *)
(* Num(n).  Text is a sequence of strings: each piece of the template is   *)
(* one string, each character of an interpolated value is one string.      *)

Num(n) == n * Whole

DigitChars == <<"0", "1", "2", "3", "4", "5", "6", "7", "8", "9">>

RECURSIVE Digits(_)
\* the decimal digits of a natural number
Digits(n) ==
    IF n < 10 THEN <<DigitChars[n + 1]>>
    ELSE Digits(n \div 10) \o <<DigitChars[(n % 10) + 1]>>

RECURSIVE FractionDigits(_, _)
\* the digits after the point of frac / 10^width, without trailing zeros
FractionDigits(frac, width) ==
    IF frac = 0 THEN <<>>
    ELSE <<DigitChars[(frac \div (10 ^ (width - 1))) + 1]>>
           \o FractionDigits(frac % (10 ^ (width - 1)), width - 1)

\* Number::toString, which join and the template literals apply: the
\* shortest decimal; exponent notation below 10^-6; no sign on zero
NumberToString(x) ==
    LET a == Abs(x)
        sign == IF x < 0 THEN <<"-">> ELSE <<>>
    IN IF a = 0 THEN <<"0">>
       ELSE IF a < 10 THEN sign \o Digits(a) \o <<"e", "-", "7">>
       ELSE sign \o Digits(a \div Whole)
              \o (IF a % Whole = 0 THEN <<>>
                  ELSE <<".">> \o FractionDigits(a % Whole, 7))

\* the same conversion of a number that is an integer, given as that integer
IntegerToString(n) ==
    IF n < 0 THEN <<"-">> \o Digits(-n) ELSE Digits(n)

RECURSIVE join_SkipsLast(_, _)
\* faulty variant: the last element is not written
join_SkipsLast(values, i) ==
    IF i >= Len(values) THEN <<>>
    ELSE IF i = Len(values) - 1 THEN NumberToString(values[i])
    ELSE NumberToString(values[i]) \o <<",">> \o join_SkipsLast(values, i + 1)

RECURSIVE join(_, _)
\* values.join(","), from element i on
join(values, i) ==
    IF i > Len(values) THEN <<>>
    ELSE IF i = Len(values) THEN NumberToString(values[i])
    ELSE NumberToString(values[i]) \o <<",">> \o join(values, i + 1)

serialize(values) == join(values, 1)

RECURSIVE PolygonLoop_NoEndMark(_, _, _)
\* faulty variant: the last index of a polygon is negated but not offset
PolygonLoop_NoEndMark(i, polygonCount, polygonIndices) ==
    IF i >= polygonCount THEN polygonIndices
    ELSE LET base == i * 3
         IN PolygonLoop_NoEndMark(i + 1, polygonCount,
                polygonIndices \o <<Num(base), Num(base + 1), Num(-(base + 2))>>)

RECURSIVE PolygonLoop(_, _, _)
\* for (let i = 0; i < polygonCount; i += 1) { polygonIndices.push(...) }
PolygonLoop(i, polygonCount, polygonIndices) ==
    IF i >= polygonCount THEN polygonIndices
    ELSE LET base == i * 3
         IN PolygonLoop(i + 1, polygonCount,
                polygonIndices \o <<Num(base), Num(base + 1), Num(-(base + 2 + 1))>>)

\* a Date, by what its UTC getters return (getUTCMonth counts from 0)
Date(year, month, date, hours, minutes, seconds, milliseconds) ==
    [year |-> year, month |-> month, date |-> date, hours |-> hours,
     minutes |-> minutes, seconds |-> seconds, milliseconds |-> milliseconds]

\* faulty variant: the clock is also written outside the creation time stamp
header_StampsCreator(now) ==
    <<"; FBX 7.4.0 project file\n",
      "FBXHeaderExtension:  {\n",
      "  FBXHeaderVersion: 1003\n",
      "  FBXVersion: 7400\n",
      "  CreationTimeStamp:  {\n",
      "    Version: 1000\n",
      "    Year: ">> \o IntegerToString(now.year)
    \o <<"\n    Month: ">> \o IntegerToString(now.month + 1)
    \o <<"\n    Day: ">> \o IntegerToString(now.date)
    \o <<"\n    Hour: ">> \o IntegerToString(now.hours)
    \o <<"\n    Minute: ">> \o IntegerToString(now.minutes)
    \o <<"\n    Second: ">> \o IntegerToString(now.seconds)
    \o <<"\n    Millisecond: ">> \o IntegerToString(now.milliseconds)
    \o <<"\n  }\n",
         "  Creator: \"Avatar Forge Exporter ">>
    \o IntegerToString(now.milliseconds)
    \o <<"\"\n", "}\n">>

\* the header template with the creation time stamp of the call
header(now) ==
    <<"; FBX 7.4.0 project file\n",
      "FBXHeaderExtension:  {\n",
      "  FBXHeaderVersion: 1003\n",
      "  FBXVersion: 7400\n",
      "  CreationTimeStamp:  {\n",
      "    Version: 1000\n",
      "    Year: ">> \o IntegerToString(now.year)
    \o <<"\n    Month: ">> \o IntegerToString(now.month + 1)
    \o <<"\n    Day: ">> \o IntegerToString(now.date)
    \o <<"\n    Hour: ">> \o IntegerToString(now.hours)
    \o <<"\n    Minute: ">> \o IntegerToString(now.minutes)
    \o <<"\n    Second: ">> \o IntegerToString(now.seconds)
    \o <<"\n    Millisecond: ">> \o IntegerToString(now.milliseconds)
    \o <<"\n  }\n",
         "  Creator: \"Avatar Forge Exporter\"\n",
         "}\n">>

globals ==
    <<"GlobalSettings:  {\n",
      "  Version: 1000\n",
      "  Properties70:  {\n",
      "    P: \"UpAxis\", \"int\", \"Integer\", \"\",1\n",
      "    P: \"UpAxisSign\", \"int\", \"Integer\", \"\",1\n",
      "    P: \"FrontAxis\", \"int\", \"Integer\", \"\",2\n",
      "    P: \"FrontAxisSign\", \"int\", \"Integer\", \"\",1\n",
      "    P: \"CoordinateAxis\", \"int\", \"Integer\", \"\",0\n",
      "    P: \"CoordinateAxisSign\", \"int\", \"Integer\", \"\",1\n",
      "    P: \"UnitScaleFactor\", \"double\", \"Number\", \"\",1.0\n",
      "  }\n",
      "}\n">>

definitions ==
    <<"Definitions:  {\n",
      "  Version: 100\n",
      "  Count: 2\n",
      "  ObjectType: \"Geometry\" {\n",
      "    Count: 1\n",
      "  }\n",
      "  ObjectType: \"Model\" {\n",
      "    Count: 1\n",
      "  }\n",
      "}\n">>

\* the Objects template around the three serialized arrays
objects(vertices, polygonIndices, normals) ==
    <<"Objects:  {\n",
      "  Geometry: 1, \"Geometry::Avatar\", \"Mesh\" {\n",
      "    Vertices: *">> \o IntegerToString(Len(vertices))
    \o <<" {\n", "      a: ">> \o serialize(vertices)
    \o <<"\n", "    }\n",
         "    PolygonVertexIndex: *">> \o IntegerToString(Len(polygonIndices))
    \o <<" {\n", "      a: ">> \o serialize(polygonIndices)
    \o <<"\n", "    }\n",
         "    GeometryVersion: 124\n",
         "    LayerElementNormal: 0 {\n",
         "      Version: 102\n",
         "      Name: \"\"\n",
         "      MappingInformationType: \"ByPolygonVertex\"\n",
         "      ReferenceInformationType: \"Direct\"\n",
         "      Normals: *">> \o IntegerToString(Len(normals))
    \o <<" {\n", "        a: ">> \o serialize(normals)
    \o <<"\n", "      }\n",
         "    }\n",
         "  }\n",
         "  Model: 2, \"Model::Avatar\", \"Mesh\" {\n",
         "    Version: 232\n",
         "    Properties70:  {\n",
         "      P: \"Lcl Translation\", \"Lcl Translation\", \"\", \"A\",0,0,0\n",
         "      P: \"Lcl Rotation\", \"Lcl Rotation\", \"\", \"A\",0,0,0\n",
         "      P: \"Lcl Scaling\", \"Lcl Scaling\", \"\", \"A\",1,1,1\n",
         "    }\n",
         "    Shading: Y\n",
         "    Culling: \"CullingOff\"\n",
         "  }\n",
         "}\n">>

connections ==
    <<"Connections:  {\n",
      "  C: \"OO\",1,2\n",
      "}\n">>

\* the cloth mesh as the flattener finds it: the plane's index, the live
\* position buffer, normals along z; its turn about the x axis is left out
ClothMesh(c, p) ==
    Object3D(TRUE,
             BufferGeometry(TRUE, PlaneIndex,
                            [v \in 1..(Len(c.live) \div 3) |->
                                <<c.live[3 * v - 2], c.live[3 * v - 1],
                                  c.live[3 * v]>>],
                            TRUE,
                            [v \in 1..(Len(c.live) \div 3) |-> <<0, 0, Whole>>]),
             <<0, 11 * (Whole \div 10)
                    + (25 * (Whole \div 100) * p.body.height) \div Percent, 0>>,
             1, <<>>)

\* the group under avatarGroupRef, with the cloth once it is mounted
Mounted(group) ==
    IF cloth = <<>> THEN group
    ELSE [group EXCEPT !.children = Append(@, ClothMesh(cloth[1], props[1]))]

\* the Blob exportAvatarAsFBX returns when the clock reads now; vertices,
\* polygonIndices, normals and raw are history of the arrays it serialized,
\* seen of the cloth buffers as they stood when it read the scene
exportAvatarAsFBX(group, now) ==
    LET collected == collectMeshes(group)
        vertices == collected.vertices
        normals == collected.normals
        vertexCount == Len(vertices) \div 3
        polygonCount == vertexCount \div 3
        polygonIndices == PolygonLoop(0, polygonCount, <<>>)
    IN [type |-> "application/octet-stream",
        content |-> header(now) \o globals \o definitions
                      \o objects(vertices, polygonIndices, normals)
                      \o connections,
        now |-> now,
        vertices |-> vertices,
        polygonIndices |-> polygonIndices,
        normals |-> normals,
        raw |-> collected.raw,
        seen |-> cloth]

\* the instants at which an export may read the clock
ClockInputs ==
    {Date(2026, 10, 4, 9, 30, 0, 0),
     Date(2026, 10, 4, 9, 30, 0, 1)}

\* the two most recent results are kept
KeepLast(log, entry) ==
    IF log = <<>> THEN <<entry>> ELSE <<log[Len(log)], entry>>

\* the FBX button: handleExport calls exportAvatarAsFBX on the mounted group
ExportFBX ==
    /\ root # <<>>
    /\ TaskMayStart
    /\ \E now \in ClockInputs :
          fbx' = KeepLast(fbx, exportAvatarAsFBX(Mounted(root[1]), now))
    /\ flat' = <<collectMeshes(Mounted(root[1]))>>
    /\ last' = Op("exportAvatarAsFBX", <<>>)
    /\ UNCHANGED <<parameters, status, generationProgress, uploadedImages,
                   lastSavedISO, timers, genCount, emitted, refs>>
    /\ UNCHANGED <<scene, root, props, cloth, frame, gltf, probe, memo, hook,
                   readers>>

-----------------------------------------------------------------------------
(* The glTF exporter: exportAvatarAsGLTF.                                   *)
(* One record per call: where the async function stands (pc), the promise  *)
(* it returned (state, value), and what the external GLTFExporter was      *)
(* handed and did.  The exporter is outside the program: which callback it *)
(* calls, how often and with what, is its choice.                          *)

MaxExports == 2     \* glTF exports started
MaxCallbacks == 2   \* callbacks the exporter makes for one parse call

NoValue == [kind |-> "none", type |-> ""]
Blob(type) == [kind |-> "Blob", type |-> type]
Error(message) == [kind |-> "Error", type |-> message]

\* what the exporter may hand to onDone, and to onError
ExporterResults == {"ArrayBuffer", "object"}
ExporterErrors == {"ErrorEvent", "Error"}

\* the options literal of the parse call
GltfOptions_NoForcedIndices ==
    [onlyVisible |-> TRUE, embedImages |-> TRUE, forceIndices |-> FALSE]

GltfOptions ==
    [onlyVisible |-> TRUE, embedImages |-> TRUE, forceIndices |-> TRUE]

\* faulty variant: a later call replaces the settled value
resolve_Overwrites(e, blob) == [e EXCEPT !.state = "resolved", !.value = blob]

\* resolve and reject of new Promise: only the first call settles
resolve(e, blob) ==
    IF e.state # "pending" THEN e
    ELSE [e EXCEPT !.state = "resolved", !.value = blob]

reject(e, error) ==
    IF e.state # "pending" THEN e
    ELSE [e EXCEPT !.state = "rejected", !.value = error]

\* (result) => { ... }: the blob type follows result instanceof ArrayBuffer
onDone(e, result) ==
    IF result = "ArrayBuffer" THEN resolve(e, Blob("model/gltf-binary"))
    ELSE resolve(e, Blob("model/gltf+json"))

\* (error) => { ... }: an ErrorEvent is wrapped, anything else passed on
onError(e, error) ==
    IF error = "ErrorEvent" THEN reject(e, Error("error.message"))
    ELSE reject(e, Error("error"))

\* the call was noted by the exporter's history
Called(e, call) ==
    [e EXCEPT !.first = IF e.first = <<>> THEN <<call>> ELSE e.first,
              !.calls = e.calls + 1]

GltfRest(op, arg) ==
    /\ last' = Op(op, arg)
    /\ UNCHANGED <<parameters, status, generationProgress, uploadedImages,
                   lastSavedISO, timers, genCount, emitted, refs>>
    /\ UNCHANGED <<scene, root, flat, props, cloth, frame, fbx, probe, memo,
                   hook, readers>>

\* handleExport calls exportAvatarAsGLTF(group): the async function runs up
\* to the await of the dynamic import and returns its pending promise
exportAvatarAsGLTF ==
    /\ root # <<>>
    /\ TaskMayStart
    /\ Len(gltf) < MaxExports
    /\ gltf' = Append(gltf, [pc |-> "import", state |-> "pending",
                             value |-> NoValue, first |-> <<>>, calls |-> 0,
                             options |-> <<>>, read |-> <<>>])
    /\ GltfRest("exportAvatarAsGLTF", <<>>)

\* the import is fulfilled: the function resumes, builds the promise and
\* calls exporter.parse(group, onDone, onError, options)
ImportDone(k) ==
    /\ TaskMayStart
    /\ gltf[k].pc = "import"
    /\ gltf' = [gltf EXCEPT ![k].pc = "parse", ![k].options = <<GltfOptions>>]
    /\ GltfRest("ImportDone", <<k>>)

\* the import is rejected: the await throws and the async function's
\* promise is rejected with the loader's error
ImportFails(k) ==
    /\ TaskMayStart
    /\ gltf[k].pc = "import"
    /\ gltf' = [gltf EXCEPT ![k] = reject([gltf[k] EXCEPT !.pc = "thrown"],
                                          Error("import"))]
    /\ GltfRest("ImportFails", <<k>>)

\* the exporter reads the cloth position buffer, in one task of its own
ExporterReads(k) ==
    /\ TaskMayStart
    /\ gltf[k].pc = "parse"
    /\ gltf[k].read = <<>>
    /\ gltf' = [gltf EXCEPT ![k].read = <<cloth>>]
    /\ GltfRest("ExporterReads", <<k>>)

\* the exporter calls onDone
ExporterDone(k, result) ==
    /\ TaskMayStart
    /\ gltf[k].pc = "parse"
    /\ gltf[k].read # <<>>
    /\ gltf[k].calls < MaxCallbacks
    /\ gltf' = [gltf EXCEPT
                   ![k] = Called(onDone(gltf[k], result), <<"onDone", result>>)]
    /\ GltfRest("ExporterDone", <<k, result>>)

\* the exporter calls onError
ExporterError(k, error) ==
    /\ TaskMayStart
    /\ gltf[k].pc = "parse"
    /\ gltf[k].calls < MaxCallbacks
    /\ gltf' = [gltf EXCEPT
                   ![k] = Called(onError(gltf[k], error), <<"onError", error>>)]
    /\ GltfRest("ExporterError", <<k, error>>)

\* whether the exporter writes a mesh with an index: it keeps the index of
\* an indexed geometry, and with forceIndices it makes one for the others
WritesIndex(geometry, options) == geometry.indexed \/ options.forceIndices

-----------------------------------------------------------------------------
(* Specifications of the store *)

vars == <<storeVars, viewVars, pageVars>>

NoView ==
    /\ scene = <<>>
    /\ root = <<>>
    /\ flat = <<>>
    /\ props = <<>>
    /\ cloth = <<>>
    /\ frame = Idle
    /\ fbx = <<>>
    /\ gltf = <<>>
    /\ probe = <<>>
    /\ memo = <<>>
    /\ hook = <<>>
    /\ readers = <<>>

Init == StoreInit /\ NoView

EditParameter == \E e \in ParamEdits : setParameter(e[1], e[2], e[3])
ReplaceParameters == \E p \in ParamSets : setParameters(p)

\* the generation simulator and the parameter edits
Next ==
    \/ generateAvatar
    \/ EditParameter
    \/ ReplaceParameters
    \/ resetParameters
    \/ TimerFires
    \/ Advance

Spec == Init /\ [][Next]_vars

SetAnyStatus == \E s \in StatusInputs : setStatus(s)
SetAnyProgress == \E v \in ProgressInputs : setGenerationProgress(v)
AddAnyUpload ==
    /\ Len(uploadedImages) < MaxUploads
    /\ \E img \in Images : addUpload(img) /\ UNCHANGED pageVars
RemoveAnyUpload == \E img \in Images : removeUpload(img.id)
MarkAnySaved == \E iso \in IsoInputs : markSaved(iso)

\* the store actions the page calls, and the timers
UiNext ==
    \/ generateAvatar
    \/ EditParameter
    \/ ReplaceParameters
    \/ resetParameters
    \/ AddAnyUpload
    \/ RemoveAnyUpload
    \/ MarkAnySaved
    \/ TimerFires
    \/ Advance

UiSpec == Init /\ [][UiNext]_vars

\* every action of the store, and its timers
StoreNext ==
    \/ generateAvatar
    \/ EditParameter
    \/ ReplaceParameters
    \/ resetParameters
    \/ SetAnyStatus
    \/ SetAnyProgress
    \/ AddAnyUpload
    \/ RemoveAnyUpload
    \/ resetUploads
    \/ MarkAnySaved
    \/ TimerFires
    \/ Advance

StoreSpec == Init /\ [][StoreNext]_vars

\* one user editing single fields and generating; the event loop runs every
\* timer that is due and time does not stop
GenNext ==
    \/ generateAvatar
    \/ EditParameter
    \/ TimerFires
    \/ Advance

FairSpec ==
    /\ Init
    /\ [][GenNext]_vars
    /\ WF_vars(TimerFires)
    /\ WF_vars(Advance)

-----------------------------------------------------------------------------
(* Generation Progress Simulator *)

Accepted == last.op = "generateAvatar" /\ last.pre # "processing"
Rejected == last.op = "generateAvatar" /\ last.pre = "processing"
ParameterOps == {"setParameter", "setParameters", "resetParameters"}

\* C1: generateAvatar called while status = processing changes neither the
\* status, nor generationProgress, nor the parameters, nor the pending timers.
C1_RejectedGenerateIsNoOp ==
    [][(last'.op = "generateAvatar" /\ status = "processing")
         => /\ status' = status
            /\ generationProgress' = generationProgress
            /\ parameters' = parameters
            /\ timers' = timers]_vars

C1_Witness ==
    /\ Rejected
    /\ status = "processing"
    /\ Len(timers) \in 1..Len(steps)

\* C2: in every reachable state the pending timers all belong to one
\* generateAvatar call.
C2_OneGenerationInFlight ==
    \A i, j \in 1..Len(timers) : timers[i].gen = timers[j].gen

\* what one undisturbed generation writes to generationProgress: the 0 of
\* generateAvatar itself, then one value per timer
FullRun == <<0>> \o steps

C3_OnTheWay ==
    /\ Len(emitted) <= Len(FullRun)
    /\ emitted = SubSeq(FullRun, 1, Len(emitted))
    /\ emitted # <<>> => generationProgress = emitted[Len(emitted)]
    /\ (emitted # <<>> /\ emitted # FullRun) => status = "processing"

C3_Done ==
    /\ status = "ready"
    /\ generationProgress = 100
    /\ emitted = FullRun

C4_EditsKeepProcessing ==
    [][(last'.op \in ParameterOps /\ status = "processing")
         => status' = "processing"]_vars

\* C5: generationProgress never decreases in a step other than an accepted
\* generateAvatar call.
C5_ProgressMonotonic ==
    [][~(last'.op = "generateAvatar" /\ status # "processing")
         => generationProgress' >= generationProgress]_vars

\* C6: setParameter in status ready sets status to idle and leaves
\* generationProgress unchanged; setParameter in status idle leaves it idle.
C6_ReadyToIdleOnce ==
    [][last'.op = "setParameter"
         => /\ status = "ready"
                => status' = "idle" /\ generationProgress' = generationProgress
            /\ status = "idle" => status' = "idle"]_vars

C6_Witness ==
    /\ last.op = "setParameter"
    /\ last.pre = "ready"
    /\ status = "idle"
    /\ generationProgress = 100

\* C7: in every state the store's actions and timers can reach,
\* generationProgress is in [0,100] and status is idle, processing or ready.
C7_ProgressAndStatusInRange ==
    /\ generationProgress \in 0..100
    /\ status \in AvatarStatus

\* C8: setParameter(section, key, value) sets the leaf parameters[section][key]
\* to value, keeps every other leaf, the section keys and the field keys, and
\* leaves generationProgress, uploadedImages and lastSavedISO unchanged.
C8_SetParameterFrame ==
    [][last'.op = "setParameter"
         => LET s == last'.arg[1]
                k == last'.arg[2]
            IN /\ parameters'[s][k] = last'.arg[3]
               /\ DOMAIN parameters' = DOMAIN parameters
               /\ \A t \in DOMAIN parameters :
                    /\ DOMAIN parameters'[t] = DOMAIN parameters[t]
                    /\ \A f \in DOMAIN parameters[t] :
                         <<t, f>> # <<s, k>>
                            => parameters'[t][f] = parameters[t][f]
               /\ generationProgress' = generationProgress
               /\ uploadedImages' = uploadedImages
               /\ lastSavedISO' = lastSavedISO]_vars

C8_Witness ==
    /\ last.op = "setParameter"
    /\ parameters[last.arg[1]][last.arg[2]] = last.arg[3]
    /\ parameters.facial.eyeSize = SavedParameters.facial.eyeSize
    /\ generationProgress > 0
    /\ uploadedImages # <<>>
    /\ lastSavedISO # "undefined"

-----------------------------------------------------------------------------
(* Procedural Mesh Builder *)

\* parameter sets the scene is built from
FractionInputs == {0, 55, 100}
SceneParams ==
    {[defaultParameters EXCEPT !.hair.style = st, !.hair.length = len,
                               !.hair.volume = vol]
        : st \in HairStyles, len \in FractionInputs, vol \in FractionInputs}

SceneInit ==
    /\ parameters \in SceneParams
    /\ refs = [slot \in RefSlots |-> 1]
    /\ StoreRest
    /\ NoView

SceneNext ==
    \/ Render
    \/ EditParameter

SceneSpec == SceneInit /\ [][SceneNext]_vars

RECURSIVE MeshCount(_)
\* the meshes in the subtree of a node
MeshCount(node) ==
    (IF node.type = "Mesh" THEN 1 ELSE 0)
    + (LET RECURSIVE Sum(_)
           Sum(i) == IF i = 0 THEN 0
                     ELSE MeshCount(node.children[i]) + Sum(i - 1)
       IN Sum(Len(node.children)))

HairGroupOf(tree) ==
    LET i == CHOOSE i \in 1..Len(tree.children) :
                 tree.children[i].name = "hair"
    IN tree.children[i]

\* C9: the built scene has exactly one mesh under the hair group when
\* hair.style = buzz and exactly 6 for every other style, whatever the other
\* parameters are.
C9_HairMeshCount ==
    last.op = "render"
        => LET hair == HairGroupOf(scene[1])
           IN /\ MeshCount(hair) =
                    (IF parameters.hair.style = "buzz" THEN 1 ELSE 6)
              /\ \A i \in 1..Len(hair.children) :
                    hair.children[i].type = "Mesh"

C9_Witness ==
    /\ last.op = "render"
    /\ parameters.hair.style = "buzz"
    /\ parameters.hair.volume = 100
    /\ parameters.body.height = 100
    /\ MeshCount(HairGroupOf(scene[1])) = 1

-----------------------------------------------------------------------------
(* Scene Flattener *)

MaxChildren == 2    \* children of a group in the scene graphs explored

Up == <<0, 0, Whole>>
Back == <<0, -3, 0>>

\* three vertices, no index: one triangle
TriGeo ==
    BufferGeometry(FALSE, <<>>,
                   <<<<0, 0, 0>>, <<12345678, 0, 0>>, <<0, -12345675, 4>>>>,
                   TRUE, <<Up, Up, Up>>)
\* four vertices indexed as two triangles, as PlaneGeometry does
QuadGeo ==
    BufferGeometry(TRUE, <<0, 2, 1, 2, 3, 1>>,
                   <<<<-5, 5, 0>>, <<5, 5, 0>>, <<-5, -5, 0>>, <<5, -5, 0>>>>,
                   TRUE, <<Up, Up, Back, Back>>)
\* one triangle without a normal attribute
BareGeo ==
    BufferGeometry(FALSE, <<>>,
                   <<<<0, 0, 0>>, <<Whole, 0, 0>>, <<0, Whole, 0>>>>,
                   FALSE, <<>>)
\* four vertices and no index: not a whole number of triangles
LooseGeo ==
    BufferGeometry(FALSE, <<>>,
                   <<<<0, 0, 0>>, <<Whole, 0, 0>>, <<0, Whole, 0>>, <<0, 0, Whole>>>>,
                   TRUE, <<Up, Up, Up, Up>>)

Geometries == {TriGeo, QuadGeo, BareGeo, LooseGeo}
Translations == {<<0, 0, 0>>, <<Whole, -7, 15>>}

Leaves ==
    {Object3D(TRUE, g, t, 1, <<>>) : g \in Geometries, t \in Translations}
    \cup {Object3D(TRUE, NoBuffer, <<0, 0, 0>>, 1, <<>>),
          Object3D(FALSE, NoBuffer, <<0, 0, 0>>, 1, <<>>)}

\* a group that moves and scales one leaf
Nested ==
    {Object3D(FALSE, NoBuffer, t, 2, <<leaf>>)
        : t \in Translations, leaf \in Leaves}

\* a mesh that is itself the parent of another mesh
MeshParents ==
    {Object3D(TRUE, TriGeo, t, 2,
              <<Object3D(TRUE, QuadGeo, <<0, 0, 0>>, 1, <<>>)>>)
        : t \in Translations}

SeqsUpTo(S, n) == UNION {[1..k -> S] : k \in 0..n}

FlattenRoots ==
    {Object3D(FALSE, NoBuffer, <<0, -6000000, 0>>, 1, kids)
        : kids \in SeqsUpTo(Leaves \cup Nested \cup MeshParents, MaxChildren)}

FlattenInit ==
    /\ StoreInit
    /\ root \in {<<r>> : r \in FlattenRoots}
    /\ scene = <<>> /\ flat = <<>> /\ props = <<>> /\ cloth = <<>>
    /\ frame = Idle /\ fbx = <<>> /\ gltf = <<>> /\ probe = <<>>
    /\ memo = <<>> /\ hook = <<>> /\ readers = <<>>

FlattenNext == Collect

FlattenSpec == FlattenInit /\ [][FlattenNext]_vars

\* what a mesh draws: its index count, or its position count without index
DrawCount(node) ==
    IF ~node.isMesh \/ ~node.geometry.present THEN 0
    ELSE IF node.geometry.indexed THEN Len(node.geometry.index)
    ELSE Len(node.geometry.position)

RECURSIVE Nodes(_)
\* the nodes of a graph, depth-first
Nodes(node) ==
    LET RECURSIVE Below(_)
        Below(i) == IF i > Len(node.children) THEN <<>>
                    ELSE Nodes(node.children[i]) \o Below(i + 1)
    IN <<node>> \o Below(1)

RECURSIVE SumSeq(_)
SumSeq(q) == IF q = <<>> THEN 0 ELSE Head(q) + SumSeq(Tail(q))

TotalDrawCount(graph) ==
    SumSeq([i \in 1..Len(Nodes(graph)) |-> DrawCount(Nodes(graph)[i])])

WholeTriangles(graph) ==
    \A i \in 1..Len(Nodes(graph)) : DrawCount(Nodes(graph)[i]) % 3 = 0

NoNormalAttribute(graph) ==
    \A i \in 1..Len(Nodes(graph)) : ~Nodes(graph)[i].geometry.hasNormal

\* C10 as stated: vertices and normals have equal length and the number of
\* vertices is a multiple of 3, for any scene graph.
C10_EqualLengthTriangulated ==
    flat # <<>>
        => /\ Len(flat[1].vertices) = Len(flat[1].normals)
           /\ (Len(flat[1].vertices) \div 3) % 3 = 0

\* C10 amended: vertices and normals have equal length, three numbers per
\* vertex and one vertex per drawn index or position of every mesh; the
\* normals are (0,1,0) where no geometry has a normal attribute; the number of
\* vertices is a multiple of 3 when every mesh geometry holds whole triangles.
C10_ParallelStreams ==
    flat # <<>>
        => LET v == flat[1].vertices
               n == flat[1].normals
           IN /\ Len(v) = Len(n)
              /\ Len(v) = 3 * TotalDrawCount(root[1])
              /\ NoNormalAttribute(root[1])
                    => \A k \in 1..Len(n) :
                          n[k] = (IF k % 3 = 2 THEN Whole ELSE 0)
              /\ WholeTriangles(root[1]) => (Len(v) \div 3) % 3 = 0

C10_Witness ==
    /\ flat # <<>>
    /\ last.op = "collectMeshes"
    /\ WholeTriangles(root[1])
    /\ \E i \in 1..Len(root[1].children) : root[1].children[i].geometry = BareGeo
    /\ \E i \in 1..Len(root[1].children) : root[1].children[i].geometry = QuadGeo
    /\ Len(flat[1].vertices) = 27
    /\ Len(flat[1].normals) = 27

-----------------------------------------------------------------------------
(* FBX Exporter *)

\* what the FBX exporter is handed: few enough nodes that the text is short
FbxLeaves ==
    {Object3D(TRUE, TriGeo, <<0, 0, 0>>, 1, <<>>),
     Object3D(TRUE, LooseGeo, <<Whole, -7, 15>>, 1, <<>>),
     Object3D(TRUE, BareGeo, <<0, 0, 0>>, 1, <<>>),
     Object3D(FALSE, NoBuffer, <<0, 0, 0>>, 1, <<>>),
     Object3D(FALSE, NoBuffer, <<Whole, -7, 15>>, 2,
              <<Object3D(TRUE, QuadGeo, <<0, 0, 0>>, 1, <<>>)>>)}

FbxRoots ==
    {Object3D(FALSE, NoBuffer, <<0, -6000000, 0>>, 1, kids)
        : kids \in SeqsUpTo(FbxLeaves, MaxChildren)}

FbxInit ==
    /\ StoreInit
    /\ root \in {<<r>> : r \in FbxRoots}
    /\ scene = <<>> /\ flat = <<>> /\ props = <<>> /\ cloth = <<>>
    /\ frame = Idle /\ fbx = <<>> /\ gltf = <<>> /\ probe = <<>>
    /\ memo = <<>> /\ hook = <<>> /\ readers = <<>>

FbxNext == ExportFBX

FbxSpec == FbxInit /\ [][FbxNext]_vars

\* a reader of the FBX text: the characters a number or a list is made of
Chars == {DigitChars[i] : i \in 1..10} \cup {"-", ".", ",", "e"}

\* the characters from position k up to the next piece of the template
RunAt(text, k) ==
    LET stop == CHOOSE j \in k..(Len(text) + 1) :
                    /\ j = Len(text) + 1 \/ text[j] \notin Chars
                    /\ \A m \in k..(j - 1) : text[m] \in Chars
    IN SubSeq(text, k, stop - 1)

\* where a piece of the template stands first, from position k on; 0 if nowhere
Find(text, piece, k) ==
    LET hits == {j \in k..Len(text) : text[j] = piece}
    IN IF hits = {} THEN 0 ELSE CHOOSE j \in hits : \A m \in hits : j <= m

\* the characters after the '*' of a block
DeclaredText(text, block) == RunAt(text, Find(text, block, 1) + 1)

\* the characters after the "a: " of a block: they follow the '*' length
\* and the two pieces " {\n" and "a: "
PayloadText(text, block) ==
    RunAt(text, Find(text, block, 1) + 1 + Len(DeclaredText(text, block)) + 2)

\* the comma-separated elements of a run of characters
Elements(run) ==
    LET commas == {k \in 1..Len(run) : run[k] = ","}
        \* the position of the i-th comma; 0 and Len(run) + 1 stand at the ends
        Comma(i) == IF i = 0 THEN 0
                    ELSE IF i > Cardinality(commas) THEN Len(run) + 1
                    ELSE CHOOSE k \in commas :
                            Cardinality({c \in commas : c < k}) = i - 1
    IN IF run = <<>> THEN <<>>
       ELSE [i \in 1..(Cardinality(commas) + 1) |->
                SubSeq(run, Comma(i - 1) + 1, Comma(i) - 1)]

DigitValue(c) == CHOOSE d \in 0..9 : DigitChars[d + 1] = c

RECURSIVE ParseDigits(_, _, _)
\* the natural number the digits from position k on spell, after acc
ParseDigits(run, k, acc) ==
    IF k > Len(run) THEN acc
    ELSE ParseDigits(run, k + 1, acc * 10 + DigitValue(run[k]))

\* the number, in units of 10^-7, that a decimal literal spells
ParseNumber(run) ==
    LET negative == run # <<>> /\ run[1] = "-"
        body == IF negative THEN SubSeq(run, 2, Len(run)) ELSE run
        e == Find(body, "e", 1)
        mantissa == IF e = 0 THEN body ELSE SubSeq(body, 1, e - 1)
        point == Find(mantissa, ".", 1)
        whole == IF point = 0 THEN mantissa ELSE SubSeq(mantissa, 1, point - 1)
        frac == IF point = 0 THEN <<>>
                ELSE SubSeq(mantissa, point + 1, Len(mantissa))
        value == IF e = 0
                 THEN ParseDigits(whole, 1, 0) * Whole
                        + ParseDigits(frac, 1, 0) * (10 ^ (7 - Len(frac)))
                 ELSE ParseDigits(whole, 1, 0)
    IN IF negative THEN -value ELSE value

ParseList(run) ==
    LET elements == Elements(run)
    IN [k \in 1..Len(elements) |-> ParseNumber(elements[k])]

\* the export that was made last
LastFbx == fbx[Len(fbx)]
FbxVertexCount == Len(LastFbx.vertices) \div 3
FbxPolygons == ParseList(PayloadText(LastFbx.content, "    PolygonVertexIndex: *"))

\* C11: the FBX text lists floor(vertexCount / 3) polygons; polygon i, from
\* 0, is the index triple (3i, 3i+1, -(3i+3)); a stream of exactly three
\* vertices gives the PolygonVertexIndex array 0,1,-3
C11_PolygonIndices ==
    fbx # <<>> =>
        LET polygons == FbxPolygons
            polygonCount == FbxVertexCount \div 3
        IN /\ Len(polygons) = 3 * polygonCount
           /\ \A i \in 0..(polygonCount - 1) :
                 /\ polygons[3 * i + 1] = Num(3 * i)
                 /\ polygons[3 * i + 2] = Num(3 * i + 1)
                 /\ polygons[3 * i + 3] = Num(-(3 * i + 3))
           /\ FbxVertexCount = 3 =>
                 PayloadText(LastFbx.content, "    PolygonVertexIndex: *")
                     = <<"0", ",", "1", ",", "-", "3">>

\* seven vertices: two whole polygons and a vertex left over
C11_Witness ==
    /\ fbx # <<>>
    /\ last.op = "exportAvatarAsFBX"
    /\ FbxVertexCount = 7
    /\ FbxPolygons = <<0, Num(1), Num(-3), Num(3), Num(4), Num(-6)>>

\* the length a block declares, and the elements its payload holds
Declared(block) == ParseDigits(DeclaredText(LastFbx.content, block), 1, 0)
Serialized(block) == Elements(PayloadText(LastFbx.content, block))

\* C12: in the FBX text the length after '*' of the Vertices, the
\* PolygonVertexIndex and the Normals block is the number of comma-separated
\* elements of that block, and the Vertices length is three times the number
\* of flattened vertices
C12_DeclaredLengths ==
    fbx # <<>> =>
        /\ Declared("    Vertices: *") = Len(Serialized("    Vertices: *"))
        /\ Declared("    PolygonVertexIndex: *")
              = Len(Serialized("    PolygonVertexIndex: *"))
        /\ Declared("      Normals: *") = Len(Serialized("      Normals: *"))
        /\ Declared("    Vertices: *") = 3 * TotalDrawCount(root[1])

C12_Witness ==
    /\ fbx # <<>>
    /\ last.op = "exportAvatarAsFBX"
    /\ TotalDrawCount(root[1]) = 7
    /\ Len(Serialized("    Vertices: *")) = 21
    /\ Len(Serialized("    PolygonVertexIndex: *")) = 6
    /\ Len(Serialized("      Normals: *")) = 21

\* the FBX text outside the fields of CreationTimeStamp
WithoutTimeStamp(text) ==
    SubSeq(text, 1, Find(text, "    Year: ", 1))
        \o SubSeq(text, Find(text, "\n  }\n", 1), Len(text))

\* the seven fields of CreationTimeStamp, with their labels
TimeStamp(text) ==
    SubSeq(text, Find(text, "    Year: ", 1), Find(text, "\n  }\n", 1))

\* C13 as claimed: two FBX exports of the same scene give the same bytes,
\* whatever the clock reads at each call
C13_ByteIdentical ==
    Len(fbx) = 2 => fbx[1].content = fbx[2].content

\* C13: two FBX exports of the same scene give the same bytes outside the
\* fields of CreationTimeStamp, the same bytes throughout when the clock
\* reads the same at both calls, and different time stamps when it does not
C13_IdenticalButTimeStamp ==
    Len(fbx) = 2 =>
        /\ WithoutTimeStamp(fbx[1].content) = WithoutTimeStamp(fbx[2].content)
        /\ fbx[1].now = fbx[2].now => fbx[1].content = fbx[2].content
        /\ fbx[1].now # fbx[2].now =>
              TimeStamp(fbx[1].content) # TimeStamp(fbx[2].content)

\* two exports of a scene with vertices, one millisecond apart
C13_Witness ==
    /\ Len(fbx) = 2
    /\ last.op = "exportAvatarAsFBX"
    /\ fbx[1].vertices # <<>>
    /\ fbx[1].now.milliseconds # fbx[2].now.milliseconds
    /\ fbx[1].content # fbx[2].content

\* the coordinates a reader gets from the Vertices block
FbxVertices == ParseList(PayloadText(LastFbx.content, "    Vertices: *"))

\* v is x rounded to six decimals: a multiple of 10^-6 nearest to x
RoundedTo6(v, x) == v % 10 = 0 /\ Abs(v - x) <= 5

\* C16: the Vertices block parses back to the flattened vertex list, same
\* length and order, each coordinate being the world coordinate rounded to
\* six decimals; rounding a rounded coordinate changes nothing
C16_VerticesRoundTrip ==
    fbx # <<>> =>
        LET parsed == FbxVertices
        IN /\ parsed = LastFbx.vertices
           /\ Len(parsed) = Len(LastFbx.raw)
           /\ \A k \in 1..Len(parsed) :
                 /\ RoundedTo6(parsed[k], LastFbx.raw[k])
                 /\ formatNumber(parsed[k]) = parsed[k]

\* coordinates with a seventh decimal, negative ones and whole ones
C16_Witness ==
    /\ fbx # <<>>
    /\ last.op = "exportAvatarAsFBX"
    /\ LET parsed == FbxVertices
       IN /\ \E k \in 1..Len(parsed) :
                LastFbx.raw[k] = 12345678 /\ parsed[k] = 12345680
          /\ \E k \in 1..Len(parsed) :
                LastFbx.raw[k] < 0 /\ LastFbx.raw[k] % 10 # 0
          /\ \E k \in 1..Len(parsed) : parsed[k] = Whole

-----------------------------------------------------------------------------
(* glTF Exporter *)

GltfRoots ==
    {Object3D(FALSE, NoBuffer, <<0, -6000000, 0>>, 1,
              <<Object3D(TRUE, QuadGeo, <<0, 0, 0>>, 1, <<>>),
                Object3D(TRUE, TriGeo, <<Whole, -7, 15>>, 1, <<>>)>>),
     Object3D(FALSE, NoBuffer, <<0, -6000000, 0>>, 1,
              <<Object3D(TRUE, BareGeo, <<0, 0, 0>>, 1, <<>>)>>)}

GltfInit ==
    /\ StoreInit
    /\ root \in {<<r>> : r \in GltfRoots}
    /\ scene = <<>> /\ flat = <<>> /\ props = <<>> /\ cloth = <<>>
    /\ frame = Idle /\ fbx = <<>> /\ gltf = <<>> /\ probe = <<>>
    /\ memo = <<>> /\ hook = <<>> /\ readers = <<>>

GltfNext ==
    \/ exportAvatarAsGLTF
    \/ \E k \in 1..Len(gltf) : ImportDone(k)
    \/ \E k \in 1..Len(gltf) : ImportFails(k)
    \/ \E k \in 1..Len(gltf) : ExporterReads(k)
    \/ \E k \in 1..Len(gltf), result \in ExporterResults : ExporterDone(k, result)
    \/ \E k \in 1..Len(gltf), error \in ExporterErrors : ExporterError(k, error)

GltfSpec == GltfInit /\ [][GltfNext]_vars

\* the promise of one export is what the first callback of the exporter, or
\* the failure of the import, made it
Outcome(e) ==
    /\ e.state = "pending" <=> (e.first = <<>> /\ e.pc # "thrown")
    /\ e.pc = "thrown" => e.state = "rejected" /\ e.value.kind = "Error"
    /\ e.first # <<>> =>
          /\ e.first[1] = <<"onDone", "ArrayBuffer">> =>
                e.state = "resolved" /\ e.value = Blob("model/gltf-binary")
          /\ e.first[1] = <<"onDone", "object">> =>
                e.state = "resolved" /\ e.value = Blob("model/gltf+json")
          /\ e.first[1][1] = "onError" =>
                e.state = "rejected" /\ e.value.kind = "Error"

\* C14: the promise of exportAvatarAsGLTF is settled exactly when the
\* exporter has called back (or the import failed), and then for good:
\* resolved with a model/gltf-binary blob if the exporter yielded an
\* ArrayBuffer, resolved with a model/gltf+json blob if it yielded anything
\* else, rejected with an Error if it reported a failure; no later callback
\* changes a settled promise, so nothing is resolved after a failure
C14_SettlesOnce ==
    [][\A k \in 1..Len(gltf') :
          /\ Outcome(gltf'[k])
          /\ (k <= Len(gltf) /\ gltf[k].state # "pending") =>
                /\ gltf'[k].state = gltf[k].state
                /\ gltf'[k].value = gltf[k].value]_vars

\* the exporter reported a failure and called onDone afterwards
C14_Witness ==
    /\ last.op = "ExporterDone"
    /\ \E k \in 1..Len(gltf) :
          /\ last.arg[1] = k
          /\ gltf[k].first = << <<"onError", "ErrorEvent">> >>
          /\ gltf[k].calls = 2
          /\ gltf[k].state = "rejected"
          /\ gltf[k].value = Error("error.message")

\* the meshes of the exported group that have a geometry
ExportedMeshes ==
    {i \in 1..Len(Nodes(root[1])) :
        Nodes(root[1])[i].isMesh /\ Nodes(root[1])[i].geometry.present}

\* C18 as claimed: the exporter is called with options for visible nodes
\* only, for images embedded inline, and for fully-expanded (non-indexed)
\* triangle lists
C18_ForcesNonIndexed ==
    \A k \in 1..Len(gltf) :
        gltf[k].options # <<>> =>
            /\ gltf[k].options[1].onlyVisible
            /\ gltf[k].options[1].embedImages
            /\ \A i \in ExportedMeshes :
                  ~WritesIndex(Nodes(root[1])[i].geometry, gltf[k].options[1])

\* C18: the exporter is called with exactly onlyVisible, embedImages and
\* forceIndices, all true: visible nodes only, images embedded inline, and
\* an index forced on every mesh (an indexed geometry keeps its index, one
\* without gets one); no geometry is expanded
C18_ForcesIndices ==
    \A k \in 1..Len(gltf) :
        gltf[k].options # <<>> =>
            /\ gltf[k].options[1]
                  = [onlyVisible |-> TRUE, embedImages |-> TRUE,
                     forceIndices |-> TRUE]
            /\ \A i \in ExportedMeshes :
                  WritesIndex(Nodes(root[1])[i].geometry, gltf[k].options[1])

\* parse was called on a group with an indexed and an unindexed geometry
C18_Witness ==
    /\ last.op = "ImportDone"
    /\ gltf[last.arg[1]].options # <<>>
    /\ \E i \in ExportedMeshes : Nodes(root[1])[i].geometry.indexed
    /\ \E i \in ExportedMeshes : ~Nodes(root[1])[i].geometry.indexed

-----------------------------------------------------------------------------
(* Interpolation and placement *)

\* the (lo, hi) pairs of the lerp calls of the mesh builder, in thousandths
Ranges ==
    {<<900, 1200>>, <<900, 1300>>, <<900, 1100>>, <<400, 850>>, <<400, 1400>>,
     <<1400, 1900>>, <<1100, 1600>>, <<500, 900>>, <<1500, 1900>>,
     <<1650, 2000>>, <<160, 240>>, <<60, 90>>, <<50, 120>>, <<30, 80>>,
     <<280, 420>>, <<40, 90>>, <<120, 250>>, <<100, 160>>, <<1740, 2080>>,
     <<200, 450>>, <<1100, 1350>>, <<250, 700>>}

\* unit fractions, in percent
UnitFractions == {0, 1, 33, 50, 99, 100}

ProbeRest(op) ==
    /\ last' = Op(op, <<>>)
    /\ UNCHANGED <<parameters, status, generationProgress, uploadedImages,
                   lastSavedISO, timers, genCount, emitted, refs>>
    /\ UNCHANGED <<scene, root, flat, props, cloth, frame, fbx, gltf, memo,
                   hook, readers>>

LerpInit ==
    /\ StoreInit
    /\ probe \in {[min |-> R(r[1]), max |-> R(r[2]), p |-> a, q |-> b,
                   out |-> <<>>] : r \in Ranges, a \in UnitFractions,
                                   b \in UnitFractions}
    /\ scene = <<>> /\ root = <<>> /\ flat = <<>> /\ props = <<>>
    /\ cloth = <<>> /\ frame = Idle /\ fbx = <<>> /\ gltf = <<>>
    /\ memo = <<>> /\ hook = <<>> /\ readers = <<>>

\* lerp is applied at both ends of the unit interval and at p and q
ApplyLerp ==
    /\ probe.out = <<>>
    /\ probe' = [probe EXCEPT !.out =
                    <<[atZero |-> lerp(0, probe.min, probe.max),
                       atOne |-> lerp(Percent, probe.min, probe.max),
                       atP |-> lerp(probe.p, probe.min, probe.max),
                       atQ |-> lerp(probe.q, probe.min, probe.max)]>>]
    /\ ProbeRest("lerp")

LerpNext == ApplyLerp

LerpSpec == LerpInit /\ [][LerpNext]_vars

\* C15: for every (lo, hi) pair of the mesh builder, all with lo <= hi,
\* lerp(0, lo, hi) = lo, lerp(1, lo, hi) = hi, and lerp(p, lo, hi) <=
\* lerp(q, lo, hi) whenever p <= q
C15_LerpEndsAndOrder ==
    probe.out # <<>> =>
        /\ probe.min <= probe.max
        /\ probe.out[1].atZero = probe.min
        /\ probe.out[1].atOne = probe.max
        /\ probe.p <= probe.q => probe.out[1].atP <= probe.out[1].atQ

\* the torso placement range at two fractions inside the interval
C15_Witness ==
    /\ probe.out # <<>>
    /\ probe.min = R(1400) /\ probe.max = R(1900)
    /\ probe.p = 33 /\ probe.q = 50
    /\ probe.out[1].atP = R(1565) /\ probe.out[1].atQ = R(1650)

\* body height fractions, in percent
HeightInputs == {0, 10, 20, 30, 40, 50, 60, 70, 80, 90, 100}

RECURSIVE HeightOf(_, _, _)
\* the height above the root group's origin of the node called name, found
\* depth-first under tree, whose own origin is at height base; -1 if absent
HeightOf(tree, name, base) ==
    LET y == base + tree.position[2]
        RECURSIVE Below(_)
        Below(i) ==
            IF i > Len(tree.children) THEN -1
            ELSE LET h == HeightOf(tree.children[i], name, y)
                 IN IF h # -1 THEN h ELSE Below(i + 1)
    IN IF tree.name = name THEN y ELSE Below(1)

\* the parts the height fraction places
PlacedParts ==
    {"torso", "head", "face", "eye", "nose", "mouth", "ear", "hair", "cloth"}

\* where each placed part stands in the tree built from p, the root group
\* taken at height 0
Placement(p) ==
    [n \in PlacedParts |->
        HeightOf([AvatarModel(p, Derived(p)) EXCEPT !.position = <<0, 0, 0>>], n, 0)]

HeightInit ==
    /\ StoreInit
    /\ probe \in {[h1 |-> a, h2 |-> b, out |-> <<>>]
                     : a \in HeightInputs, b \in HeightInputs}
    /\ probe.h1 < probe.h2
    /\ scene = <<>> /\ root = <<>> /\ flat = <<>> /\ props = <<>>
    /\ cloth = <<>> /\ frame = Idle /\ fbx = <<>> /\ gltf = <<>>
    /\ memo = <<>> /\ hook = <<>> /\ readers = <<>>

\* the avatar is built at height h1 and at height h2, all else being equal
ApplyHeights ==
    /\ probe.out = <<>>
    /\ probe' = [probe EXCEPT !.out =
                    <<Placement([parameters EXCEPT !.body.height = probe.h1]),
                      Placement([parameters EXCEPT !.body.height = probe.h2])>>]
    /\ ProbeRest("AvatarModel")

HeightNext == ApplyHeights

HeightSpec == HeightInit /\ [][HeightNext]_vars

\* how far a part rises from the first build to the second
Rise(n) == probe.out[2][n] - probe.out[1][n]

\* C20 as claimed: from a height fraction to a greater one, the torso group,
\* the head, the face group with eyes, nose, mouth and ears, the hair group
\* and the cloth all rise, and all by the same amount
C20_SameRise ==
    probe.out # <<>> =>
        /\ \A n \in PlacedParts : Rise(n) > 0
        /\ \A n, m \in PlacedParts : Rise(n) = Rise(m)

\* C20: from a height fraction h1 to a greater one h2, all these parts rise,
\* each at the rate of its own range: per unit of height fraction the torso
\* group by 0.5, the head by 0.4, the face group and with it eyes, nose,
\* mouth and ears by 0.35, the hair group by 0.34, the cloth by 0.25
C20_RiseByOwnRange ==
    probe.out # <<>> =>
        LET dh == probe.h2 - probe.h1
        IN /\ \A n \in PlacedParts : Rise(n) > 0
           /\ Rise("torso") = Frac(R(500), dh, Percent)
           /\ Rise("head") = Frac(R(400), dh, Percent)
           /\ \A n \in {"face", "eye", "nose", "mouth", "ear"} :
                 Rise(n) = Frac(R(350), dh, Percent)
           /\ Rise("hair") = Frac(R(340), dh, Percent)
           /\ Rise("cloth") = Frac(R(250), dh, Percent)

\* from the default height 0.6 to 1: the torso rises 0.2, the cloth 0.1
C20_Witness ==
    /\ probe.out # <<>>
    /\ probe.h1 = 60 /\ probe.h2 = 100
    /\ Rise("torso") = R(200)
    /\ Rise("cloth") = R(100)
    /\ probe.out[2]["hair"] = R(2080)

-----------------------------------------------------------------------------
(* Continuous Animator *)

\* edits of the parameters the cloth offset reads
ClothEdits == {<<"clothing", "layering", 100>>, <<"clothing", "fabricSheen", 0>>}

EditCloth == \E e \in ClothEdits : setParameter(e[1], e[2], e[3])

\* the scene is mounted, parameters are edited, frames run one at a time
ClothNext ==
    \/ TaskMayStart /\ Render
    \/ TaskMayStart /\ EditCloth
    \/ \E elapsed \in ElapsedInputs : FrameStart(elapsed)
    \/ FrameStep
    \/ FrameEnd

ClothSpec == Init /\ [][ClothNext]_vars

\* C17: the rest buffer is never written; X and Y of the live buffer are
\* those of the rest buffer; when no frame is running, Z of the live buffer
\* is Z of the rest buffer plus the offset for the elapsed time and the
\* parameters of the last frame (the rest buffer itself before any frame):
\* it does not depend on earlier frames, so a frame run again with the same
\* elapsed time leaves the same buffer
C17_NoDrift ==
    cloth # <<>> =>
        LET c == cloth[1]
        IN /\ c.rest = PlanePositions
           /\ Len(c.live) = Len(c.rest)
           /\ \A k \in 1..Len(c.live) : k % 3 # 0 => c.live[k] = c.rest[k]
           /\ (frame.running = "none" /\ c.elapsed = -1) => c.live = c.rest
           /\ (frame.running = "none" /\ c.elapsed >= 0) =>
                 \A v \in 1..(Len(c.live) \div 3) :
                     c.live[3 * v] =
                         c.rest[3 * v]
                           + ClothOffset(c.rest[3 * v - 2], c.rest[3 * v - 1],
                                         c.elapsed, c.closure[1])

\* a frame has run to its end with the elapsed time of the frame before it,
\* after an edit of the layering, and the cloth is off its rest position
C17_Witness ==
    /\ cloth # <<>>
    /\ last.op = "FrameEnd"
    /\ last.arg[1] = 700
    /\ cloth[1].elapsed = 700
    /\ cloth[1].closure[1].clothing.layering = 100
    /\ \A v \in 1..(Len(cloth[1].live) \div 3) :
          cloth[1].live[3 * v] # cloth[1].rest[3 * v]

-----------------------------------------------------------------------------
(* Exports while the animator runs *)

\* the scene is mounted: the first render has made the cloth geometry
RaceInit ==
    /\ StoreInit
    /\ root = <<Object3D(FALSE, NoBuffer, <<0, -6000000, 0>>, 1, <<>>)>>
    /\ scene = <<AvatarModel(parameters, Derived(parameters))>>
    /\ props = <<parameters>>
    /\ cloth = <<ClothGeometry>>
    /\ flat = <<>> /\ frame = Idle /\ fbx = <<>> /\ gltf = <<>> /\ probe = <<>>
    /\ memo = <<AvatarMemos(<<>>, parameters, refs)>>
    /\ hook = <<>> /\ readers = <<>>

\* frames, FBX exports and glTF exports in any order the event loop allows
RaceNext ==
    \/ \E elapsed \in ElapsedInputs : FrameStart(elapsed)
    \/ FrameStep
    \/ FrameEnd
    \/ ExportFBX
    \/ exportAvatarAsGLTF
    \/ \E k \in 1..Len(gltf) : ImportDone(k)
    \/ \E k \in 1..Len(gltf) : ExporterReads(k)

RaceSpec == RaceInit /\ [][RaceNext]_vars

\* the cloth buffers are as one frame that ran to its end left them (or at
\* rest, if none ran): every vertex written by that frame, for its elapsed time
OneFrame(c) ==
    /\ \A v \in 1..Len(c.written) : c.written[v] = c.elapsed
    /\ c.elapsed = -1 => c.live = c.rest
    /\ c.elapsed >= 0 =>
          \A v \in 1..Len(c.written) :
              c.live[3 * v] =
                  c.rest[3 * v]
                    + ClothOffset(c.rest[3 * v - 2], c.rest[3 * v - 1],
                                  c.elapsed, c.closure[1])

\* C19: whatever the order of frame callbacks, FBX exports and glTF exports
\* (suspended at the import before they read the scene), every read of the
\* cloth position buffer by an export finds the whole result of one frame,
\* all vertices computed for the same elapsed time
C19_ReadsSeeOneFrame ==
    /\ \A k \in 1..Len(fbx) : fbx[k].seen # <<>> => OneFrame(fbx[k].seen[1])
    /\ \A k \in 1..Len(gltf) :
          (gltf[k].read # <<>> /\ gltf[k].read[1] # <<>>) =>
              OneFrame(gltf[k].read[1][1])

\* a glTF export started before the FBX export has read the buffer after
\* it, and a frame ran in between
C19_Witness ==
    /\ fbx # <<>>
    /\ gltf # <<>>
    /\ gltf[1].read # <<>>
    /\ LastFbx.seen[1].elapsed = 0
    /\ gltf[1].read[1][1].elapsed = 700
    /\ gltf[1].read[1][1].live # LastFbx.seen[1].live

-----------------------------------------------------------------------------
(* Order and world transform of the flattened meshes *)

RECURSIVE PathsOf(_)
\* the child-index paths of a graph: a node before its children, the
\* children in order
PathsOf(node) ==
    LET RECURSIVE Below(_)
        Below(i) ==
            IF i > Len(node.children) THEN <<>>
            ELSE LET sub == PathsOf(node.children[i])
                 IN [k \in 1..Len(sub) |-> <<i>> \o sub[k]] \o Below(i + 1)
    IN <<<<>>>> \o Below(1)

RECURSIVE NodeAt(_, _)
NodeAt(node, path) ==
    IF path = <<>> THEN node
    ELSE NodeAt(node.children[Head(path)], Tail(path))

\* the node j steps down the path
Ancestor(graph, path, j) == NodeAt(graph, SubSeq(path, 1, j))

RECURSIVE ScaleAbove(_, _, _)
\* the product of the scales of the nodes strictly above step j
ScaleAbove(graph, path, j) ==
    IF j = 0 THEN 1
    ELSE ScaleAbove(graph, path, j - 1) * Ancestor(graph, path, j - 1).scale

RECURSIVE OffsetTo(_, _, _, _)
\* one coordinate of the world position of the node j steps down the path
OffsetTo(graph, path, j, axis) ==
    LET own == ScaleAbove(graph, path, j)
                 * Ancestor(graph, path, j).position[axis]
    IN IF j = 0 THEN own ELSE OffsetTo(graph, path, j - 1, axis) + own

\* the local transforms of the node and of all its ancestors, composed
AncestorComposed(graph, path) ==
    LET n == Len(path)
    IN [t |-> <<OffsetTo(graph, path, n, 1), OffsetTo(graph, path, n, 2),
                OffsetTo(graph, path, n, 3)>>,
        s |-> ScaleAbove(graph, path, n) * NodeAt(graph, path).scale]

\* the run of one node: nothing unless it is a mesh with a geometry, else
\* every de-indexed vertex under the given matrix
RunOf(node, world) ==
    IF ~node.isMesh \/ ~node.geometry.present
    THEN [vertices |-> <<>>, normals |-> <<>>]
    ELSE LET g == toNonIndexed(node.geometry)
             count == Len(g.position)
             RECURSIVE Run(_)
             Run(i) ==
                IF i > count THEN [vertices |-> <<>>, normals |-> <<>>]
                ELSE LET rest == Run(i + 1)
                         p == applyMatrix4(g.position[i], world)
                         n == IF g.hasNormal
                              THEN applyNormalMatrix(g.normal[i], world)
                              ELSE <<0, Whole, 0>>
                     IN [vertices |-> <<formatNumber(p[1]), formatNumber(p[2]),
                                        formatNumber(p[3])>> \o rest.vertices,
                         normals |-> <<formatNumber(n[1]), formatNumber(n[2]),
                                       formatNumber(n[3])>> \o rest.normals]
         IN Run(1)

RECURSIVE RunsFrom(_, _, _)
\* the runs of the nodes from the k-th path on, one after the other
RunsFrom(graph, paths, k) ==
    IF k > Len(paths) THEN [vertices |-> <<>>, normals |-> <<>>]
    ELSE LET run == RunOf(NodeAt(graph, paths[k]),
                          AncestorComposed(graph, paths[k]))
             rest == RunsFrom(graph, paths, k + 1)
         IN [vertices |-> run.vertices \o rest.vertices,
             normals |-> run.normals \o rest.normals]

\* C21: collectMeshes visits the graph depth-first (a node before its
\* children, children in order); a node that is not a mesh or has no geometry
\* appends nothing, yet its transform is composed into the world transform of
\* every descendant mesh; the vertices and normals of each mesh are one
\* contiguous run in visit order, each vertex transformed by the composition
\* of the mesh's own and all its ancestors' transforms
C21_DepthFirstWorldRuns ==
    flat # <<>>
        => LET expected == RunsFrom(root[1], PathsOf(root[1]), 1)
           IN /\ flat[1].vertices = expected.vertices
              /\ flat[1].normals = expected.normals

\* a moved and scaled group without geometry holds a mesh, and another mesh
\* with a different geometry follows it
C21_Witness ==
    /\ flat # <<>>
    /\ last.op = "collectMeshes"
    /\ Len(root[1].children) = 2
    /\ root[1].children[1] \in Nested
    /\ root[1].children[1].position = <<Whole, -7, 15>>
    /\ root[1].children[1].children[1].geometry = QuadGeo
    /\ root[1].children[1].children[1].position = <<Whole, -7, 15>>
    /\ root[1].children[2].geometry = TriGeo
    /\ root[1].children[2].position = <<0, 0, 0>>
    /\ Len(flat[1].vertices) = 27
    /\ flat[1].vertices[1] = formatNumber(Whole + 2 * (Whole - 5))
    /\ flat[1].vertices[19] = 0

\* a mesh with a child mesh: the parent's run comes first
C21_WitnessParentFirst ==
    /\ flat # <<>>
    /\ last.op = "collectMeshes"
    /\ Len(root[1].children) = 1
    /\ root[1].children[1] \in MeshParents
    /\ Len(flat[1].vertices) = 27
    /\ flat[1].vertices[4] = formatNumber(2 * 12345678)
    /\ flat[1].vertices[10] = -10

-----------------------------------------------------------------------------
(* Memoized values of the scene *)

\* one edit for each memoized value, and one that writes the value the leaf
\* has by default
MemoEdits ==
    {<<"skin", "tone", "#f1c27d">>, <<"skin", "tone", "#c58c6d">>,
     <<"head", "headWidth", 80>>,
     <<"hair", "color", "#000000">>, <<"hair", "secondaryColor", "#ffffff">>,
     <<"hair", "volume", 90>>}

EditForMemo == \E e \in MemoEdits : setParameter(e[1], e[2], e[3])

MemoNext ==
    \/ EditForMemo
    \/ ReplaceParameters
    \/ resetParameters
    \/ Render

MemoSpec == Init /\ [][MemoNext]_vars

\* C22: after any sequence of setParameter, setParameters and resetParameters
\* followed by a render, every memoized value of the scene (skin material,
\* head scale, hair colors, hair layers) equals what recomputing it from the
\* current parameters gives, and so does the tree built from them; no render
\* uses a value computed from earlier parameters
C22_MemosAreCurrent ==
    memo # <<>>
        => /\ Values(memo[1]) = Derived(props[1])
           /\ scene[1] = AvatarModel(props[1], Derived(props[1]))
           /\ last.op = "render" => props[1] = parameters

\* a render after the hair was edited twice with a render in between and the
\* skin was never replaced: the skin material is the one of the first
\* render, the hair layers were computed anew
C22_Witness ==
    /\ memo # <<>>
    /\ last.op = "render"
    /\ memo[1].skinMaterial.deps = <<0>>
    /\ memo[1].hairLayers.deps = <<2>>
    /\ parameters.hair.volume = 90
    /\ parameters.hair.color = "#000000"
    /\ memo[1].hairLayers.value = hairLayers(parameters)
    /\ memo[1].hairLayers.value # hairLayers(defaultParameters)

-----------------------------------------------------------------------------
(* Status and progress of the generation simulator *)

\* C23: in every state reachable by any interleaving of generateAvatar,
\* setParameter, setParameters, resetParameters and timer firings, status
\* ready implies generationProgress = 100
C23_ReadyMeansComplete ==
    status = "ready" => generationProgress = 100

\* C24: no step takes status from idle directly to ready, and while status
\* stays idle (no generate request was accepted since it became idle)
\* generationProgress does not change
C24_ReadyOnlyFromProcessing ==
    [][/\ ~(status = "idle" /\ status' = "ready")
       /\ (status = "idle" /\ status' = "idle")
             => generationProgress' = generationProgress]_vars

\* the timers one accepted request schedules: value and delay in ms
ExpectedTimers ==
    <<<<0, 0>>, <<18, 500>>, <<37, 1000>>, <<58, 1500>>, <<76, 2000>>,
      <<92, 2500>>, <<100, 3000>>>>

\* C25: a generate request is accepted exactly when status is not
\* processing: from idle and from ready alike generateAvatar sets status
\* processing and generationProgress 0 and schedules exactly 7 timers, one
\* per progress value, with delays 0, 500, ..., 3000 ms in the order of the
\* values, and leaves the parameters unchanged; while processing it changes
\* nothing
C25_AcceptedUnlessProcessing ==
    [][last'.op = "generateAvatar" =>
          IF status = "processing"
          THEN UNCHANGED <<status, generationProgress, timers, parameters>>
          ELSE /\ status' = "processing"
               /\ generationProgress' = 0
               /\ parameters' = parameters
               /\ Len(timers') = Len(timers) + 7
               /\ SubSeq(timers', 1, Len(timers)) = timers
               /\ \A i \in 1..7 :
                     LET timer == timers'[Len(timers) + i]
                     IN /\ timer.value = ExpectedTimers[i][1]
                        /\ timer.delay = ExpectedTimers[i][2]]_vars

\* a request accepted from ready, after a generation ran to its end
C25_Witness ==
    /\ last.op = "generateAvatar"
    /\ last.pre = "ready"
    /\ status = "processing"
    /\ generationProgress = 0
    /\ Len(timers) = 7
    /\ genCount = 2

-----------------------------------------------------------------------------
(* Reset of the parameters *)

\* edits, replacements and resets of the parameters between renders, with the
\* progress and the uploads set beside them
ResetNext ==
    \/ EditParameter
    \/ ReplaceParameters
    \/ resetParameters
    \/ SetAnyProgress
    \/ AddAnyUpload
    \/ Render

ResetSpec == Init /\ [][ResetNext]_vars

\* the parameters of the initial store state, leaf by leaf
InitialLeaves ==
    [facial |-> [eyeSpacing |-> 50, eyeSize |-> 50, noseWidth |-> 50,
                 noseLength |-> 50, lipFullness |-> 50, earSize |-> 50],
     head |-> [headHeight |-> 50, headWidth |-> 50, chinDefinition |-> 50,
               jawWidth |-> 50, neckThickness |-> 50],
     skin |-> [tone |-> "#c58c6d", roughness |-> 35, sheen |-> 40,
               subsurface |-> 60, freckles |-> 15],
     hair |-> [style |-> "medium", color |-> "#1f1a17",
               secondaryColor |-> "#2f2723", length |-> 60, curl |-> 35,
               volume |-> 55],
     body |-> [height |-> 60, weight |-> 50, muscle |-> 60, posture |-> 50,
               shoulderWidth |-> 55],
     clothing |-> [outfit |-> "athletic", primaryColor |-> "#243447",
                   secondaryColor |-> "#7e94ff", fabricSheen |-> 45,
                   layering |-> 40]]

\* what an object of the parameters holds
Content(p, slot) == IF slot = "parameters" THEN p ELSE p[slot]

\* C26: after any sequence of setParameter and setParameters calls,
\* resetParameters leaves parameters equal, field by field, to the parameters
\* of the initial store state; it sets status idle and leaves
\* generationProgress and uploadedImages unchanged; and no step leaves the
\* defaultParameters object or a section of it with another content
C26_ResetRestoresDefaults ==
    [][/\ last'.op = "resetParameters" =>
             /\ DOMAIN parameters' = DOMAIN InitialLeaves
             /\ \A section \in DOMAIN InitialLeaves :
                   /\ DOMAIN parameters'[section]
                         = DOMAIN InitialLeaves[section]
                   /\ \A key \in DOMAIN InitialLeaves[section] :
                         parameters'[section][key]
                            = InitialLeaves[section][key]
             /\ status' = "idle"
             /\ generationProgress' = generationProgress
             /\ uploadedImages' = uploadedImages
       /\ \A slot \in RefSlots :
             refs'[slot] = 0
                => Content(parameters', slot) = Content(InitialLeaves, slot)]_vars

\* a reset after the screen showed a restored set with an edited hair style,
\* with a progress and an upload in the store
C26_Witness ==
    /\ last.op = "resetParameters"
    /\ props # <<>>
    /\ props[1].hair.style = "buzz"
    /\ props[1].facial.eyeSize = 80
    /\ parameters = InitialLeaves
    /\ status = "idle"
    /\ generationProgress = 50
    /\ uploadedImages # <<>>

-----------------------------------------------------------------------------
(* Polygon vertices and normals of the FBX geometry *)

\* the vertex an entry of PolygonVertexIndex stands for
DecodeIndex(x) == IF x >= 0 THEN x ELSE -x - 1

\* C27: in the FBX output every PolygonVertexIndex entry decodes (x if
\* x >= 0, else -x-1) to a vertex index in [0, vertexCount), every flattened
\* vertex is referenced by exactly one entry, and the number of normals
\* (ByPolygonVertex, Direct) equals the number of polygon-vertex entries, for
\* every flattened vertex count, multiples of 3 or not
C27_EveryVertexInOnePolygon ==
    fbx # <<>> =>
        LET polygons == FbxPolygons
            entries == [k \in 1..Len(polygons) |->
                           DecodeIndex(polygons[k] \div Whole)]
            vertexCount == Len(Serialized("    Vertices: *")) \div 3
            normalCount == Len(Serialized("      Normals: *")) \div 3
        IN /\ \A k \in 1..Len(entries) : entries[k] \in 0..(vertexCount - 1)
           /\ \A v \in 0..(vertexCount - 1) :
                 Cardinality({k \in 1..Len(entries) : entries[k] = v}) = 1
           /\ normalCount = Len(entries)

-----------------------------------------------------------------------------
(* Uploads of reference images: handleUpload and the FileReader callbacks *)

UploadLimit == 5    \* the 5 of Math.max(0, 5 - currentCount)
MaxFiles == 2       \* files in one FileList
MaxReaders == 2     \* FileReaders that are reading at one time

Files == {[name |-> "a.png", size |-> 10, data |-> "data:a"]}
Uids == {"1", "2"}

\* `${file.name}-${uid}`
ImageId(name, uid) == IF uid = "1" THEN "a.png-1" ELSE "a.png-2"

\* the image reader.onload makes of a file that was read
UploadedImage(file, uid) ==
    [id |-> ImageId(file.name, uid), name |-> file.name, src |-> file.data,
     size |-> file.size]

\* Array.from(files).slice(0, Math.max(0, 5 - currentCount))
Queue(files, currentCount) ==
    LET end == IF UploadLimit - currentCount > 0
               THEN UploadLimit - currentCount ELSE 0
    IN SubSeq(files, 1, Min(Len(files), end))

\* handleUpload(files), from the file input or from a drop: a FileReader is
\* started for each queued file; files is <<>> for null or an empty list
handleUpload(files) ==
    /\ Len(readers) + Len(files) <= MaxReaders
    /\ readers' = IF files = <<>> THEN readers
                  ELSE readers \o Queue(files, Len(uploadedImages))
    /\ last' = Op("handleUpload", <<Len(files)>>)
    /\ UNCHANGED <<parameters, status, generationProgress, uploadedImages,
                   lastSavedISO, timers, genCount, emitted, refs>>
    /\ UNCHANGED viewVars

\* reader.onload of the k-th pending reader: the reads end in any order
ReaderLoads(k) ==
    /\ \E uid \in Uids : addUpload(UploadedImage(readers[k], uid))
    /\ readers' = RemoveAt(readers, k)

\* the images a saved profile or earlier uploads left in the store
StoredImages ==
    UNION {[1..n -> {UploadedImage(f, "1") : f \in Files}] : n \in 0..UploadLimit}

UploadInit ==
    /\ parameters = defaultParameters
    /\ refs = DefaultRefs
    /\ status = "idle"
    /\ generationProgress = 0
    /\ uploadedImages \in StoredImages
    /\ lastSavedISO = "undefined"
    /\ timers = <<>>
    /\ genCount = 0
    /\ emitted = <<>>
    /\ last = [op |-> "create", pre |-> "idle", arg |-> <<>>]
    /\ NoView

UploadNext ==
    \/ \E files \in SeqsUpTo(Files, MaxFiles) : handleUpload(files)
    \/ \E k \in 1..Len(readers) : ReaderLoads(k)

UploadSpec == UploadInit /\ [][UploadNext]_vars

\* C28: starting from at most 5 images, after any interleaving of
\* handleUpload calls and FileReader onload callbacks that call addUpload,
\* uploadedImages has at most 5 entries
C28_AtMostFiveUploads == Len(uploadedImages) <= 5

-----------------------------------------------------------------------------
(* The progress display: useLiveGenerationProgress.                          *)
(* hook holds the status and progress of the hook's last render, its         *)
(* displayProgress state, whether the interval of the first effect is set,   *)
(* and the animation frames requested and not yet run, oldest first.  A      *)
(* change of the store re-renders the hook before any other task runs.       *)

MaxTicks == 2       \* interval callbacks explored between two (re)starts

\* the cleanup of an effect cancels the frame it requested
CancelFrame(frames, effect) ==
    LET kept == {k \in 1..Len(frames) : frames[k].effect # effect}
        RECURSIVE Keep(_)
        Keep(k) == IF k > Len(frames) THEN <<>>
                   ELSE (IF k \in kept THEN <<frames[k]>> ELSE <<>>)
                          \o Keep(k + 1)
    IN Keep(1)

\* the first effect, deps [status, progress]: its cleanup, then an interval
\* while processing and else a frame that shows the progress
ProgressEffect(h, newStatus, newProgress) ==
    LET cleaned == [h EXCEPT !.interval = FALSE, !.ticks = 0,
                             !.frames = CancelFrame(h.frames, 1)]
    IN IF newStatus = "processing"
       THEN [cleaned EXCEPT !.interval = TRUE]
       ELSE [cleaned EXCEPT
               !.frames = Append(@, [effect |-> 1, value |-> newProgress])]

\* the second effect, deps [status]: its cleanup, then a frame that shows
\* 100 when ready
ReadyEffect(h, newStatus) ==
    LET cleaned == [h EXCEPT !.frames = CancelFrame(h.frames, 2)]
    IN IF newStatus = "ready"
       THEN [cleaned EXCEPT !.frames = Append(@, [effect |-> 2, value |-> 100])]
       ELSE cleaned

\* the first render: useState(progress), and both effects run
MountedHook ==
    ReadyEffect(
        ProgressEffect([status |-> status, progress |-> generationProgress,
                        displayProgress |-> generationProgress,
                        interval |-> FALSE, ticks |-> 0, frames |-> <<>>],
                       status, generationProgress),
        status)

\* what the hook returns as progress
Reported(h) ==
    IF h.status = "processing" THEN h.displayProgress ELSE h.progress

\* the hook has rendered the store's current status and progress
Synced == hook # <<>> /\ hook[1].status = status
                      /\ hook[1].progress = generationProgress

HookRest(op) ==
    /\ last' = Op(op, <<>>)
    /\ UNCHANGED <<parameters, status, generationProgress, uploadedImages,
                   lastSavedISO, timers, genCount, emitted, refs>>
    /\ UNCHANGED <<scene, root, flat, props, cloth, frame, fbx, gltf, probe,
                   memo, readers>>

\* the store changed: the hook renders again and the effects whose
\* dependencies changed run
StoreRender ==
    /\ hook # <<>>
    /\ ~Synced
    /\ LET h == hook[1]
           seen == [h EXCEPT !.status = status,
                             !.progress = generationProgress]
           first == ProgressEffect(seen, status, generationProgress)
           second == IF h.status # status THEN ReadyEffect(first, status)
                     ELSE first
       IN hook' = <<second>>
    /\ HookRest("render")

\* the interval callback: setDisplayProgress((value) => Math.min(value + 1, 99))
IntervalTick ==
    /\ Synced
    /\ hook[1].interval
    /\ hook[1].ticks < MaxTicks
    /\ hook' = <<[hook[1] EXCEPT
                    !.displayProgress = Min(@ + 1, 99),
                    !.ticks = @ + 1]>>
    /\ HookRest("interval")

\* an animation frame: the callbacks requested run in the order of request
AnimationFrame ==
    /\ Synced
    /\ hook[1].frames # <<>>
    /\ hook' = <<[hook[1] EXCEPT
                    !.displayProgress =
                        hook[1].frames[Len(hook[1].frames)].value,
                    !.frames = <<>>]>>
    /\ HookRest("frame")

HookInit ==
    /\ StoreInit
    /\ hook = <<MountedHook>>
    /\ scene = <<>> /\ root = <<>> /\ flat = <<>> /\ props = <<>>
    /\ cloth = <<>> /\ frame = Idle /\ fbx = <<>> /\ gltf = <<>>
    /\ probe = <<>> /\ memo = <<>> /\ readers = <<>>

\* generations one after the other, with the display following them
HookNext ==
    \/ Synced /\ generateAvatar
    \/ Synced /\ TimerFires
    \/ Synced /\ Advance
    \/ StoreRender
    \/ IntervalTick
    \/ AnimationFrame

HookSpec == HookInit /\ [][HookNext]_vars

\* C29: whenever status is processing the progress the hook reports is at
\* most 99 and does not decrease while status stays processing, for any
\* sequence of generations, a generation started from ready included; when
\* status is ready the reported progress is the store's generationProgress
C29_ReportedProgress ==
    /\ [](hook[1].status = "processing" => Reported(hook[1]) <= 99)
    /\ []((Synced /\ status = "ready")
             => Reported(hook[1]) = generationProgress)
    /\ [][(hook[1].status = "processing" /\ hook'[1].status = "processing")
             => Reported(hook'[1]) >= Reported(hook[1])]_vars

====
